---- MODULE Spec2Model ----
(***************************************************************************)
(* State-machine model of the keycloak-react auth layer:                   *)
(*   - KeycloakAuthProvider (src/src/config/types.ts 522-660): React state,*)
(*     the two init guard refs, the setup effect, the three handlers it    *)
(*     registers on the keycloak-js client, the init completion handlers,  *)
(*     getToken/signIn and the memoised context value;                     *)
(*   - Protect (src/src/auth/index.ts 227-269), a consumer of the context. *)
(* The keycloak-js client is the environment: it is created by the effect, *)
(* settles its init promise, acquires/clears tokens and fires the events   *)
(* the provider subscribed to.                                             *)
(*                                                                         *)
(* Optional values are sequences of length 0 or 1 (<<>> is null/undefined);*)
(* a client handle is a positive index into clients (0 is null); a raw     *)
(* token string is a positive version number (0 is undefined).             *)
(* React 18 batches every setState of one handler into one render, so a    *)
(* handler is one atomic step; setState on an unmounted component is a     *)
(* no-op.                                                                  *)
(***************************************************************************)
EXTENDS Naturals, Sequences, FiniteSets

\* ---- bounds of the model ----
\* number of keycloak-js clients one provider instance may construct
MaxClients == 2
\* number of lifecycle events (login success, logout, expiry) the clients fire
MaxEvents == 2
\* number of updateToken calls (through getToken) that are recorded
MaxGetToken == 1
\* number of signIn calls (and of the client.login calls they make) that are
\* recorded
MaxLoginCalls == 1
\* number of fetchLoginConfig calls that are started
MaxFetches == 2
\* number of times a ConfigProvider is rendered again with other props
MaxConfigRenders == 2
\* number of submit calls of one useSignIn form
MaxSubmits == 2

\* ---- program constants ----
\* keycloak.updateToken(30)
MinValidity == 30

Undefined == "undefined"

\* parsed access token and parsed ID token of the test realm
AccessClaims ==
  [sub |-> "u1", email |-> "a@x", email_verified |-> "true", name |-> "A B",
   given_name |-> "A", family_name |-> "B", preferred_username |-> "ab",
   picture |-> Undefined]

IdClaims ==
  [sub |-> "u1", email |-> "a@x", email_verified |-> "true", name |-> "Ann B",
   given_name |-> "Ann", family_name |-> "B", preferred_username |-> "ab",
   picture |-> "pic"]

ResourceRoleNames == {"admin", "editor"}
RealmRoleNames == {"offline_access"}

\* what a client holds once it has obtained tokens
TokenSets ==
  { [idTokenParsed |-> <<>>, tokenParsed |-> <<AccessClaims>>,
     resourceRoles |-> {}, realmRoles |-> {}],
    [idTokenParsed |-> <<IdClaims>>, tokenParsed |-> <<AccessClaims>>,
     resourceRoles |-> {"admin"}, realmRoles |-> {}],
    [idTokenParsed |-> <<>>, tokenParsed |-> <<AccessClaims>>,
     resourceRoles |-> {}, realmRoles |-> {"offline_access"}],
    [idTokenParsed |-> <<IdClaims>>, tokenParsed |-> <<AccessClaims>>,
     resourceRoles |-> {"admin"}, realmRoles |-> {"offline_access"}] }

\* values a rejected init promise may carry: an Error, or something else
RejectionValues ==
  { [isError |-> TRUE, message |-> "init failed"],
    [isError |-> FALSE, message |-> "login_required"] }

\* the roles / realmRoles props of Protect: absent, or an array of names
RolesProps == {<<>>} \cup {<<s>> : s \in SUBSET ResourceRoleNames}
RealmRolesProps == {<<>>} \cup {<<s>> : s \in SUBSET RealmRoleNames}

\* the props of a Protect element
ProtectProps ==
  [roles : RolesProps, realmRoles : RealmRolesProps,
   fallback : {Undefined, "node", "function"}, loading : BOOLEAN]

\* the fallback prop of SignedIn / SignedOut: absent, content, or a falsy
\* node (the empty string)
GateFallbacks == {Undefined, "node", ""}

\* no SignedIn / SignedOut element has rendered yet
NoGateRender == [fallback |-> Undefined, out |-> "none"]

\* no function under test has been given arguments, none has been applied
NoInput == [fn |-> "none"]
NoCall == [fn |-> "none"]
\* props of a ConfigProvider that has none
NoConfigProps ==
  [config |-> <<>>, keycloakUrl |-> <<>>, realm |-> <<>>,
   configElementId |-> <<>>]
\* no ConfigProvider has been rendered yet
NoConfigProvider ==
  [mounted |-> FALSE, props |-> NoConfigProps, config |-> <<>>,
   isLoading |-> TRUE, error |-> <<>>, fetch |-> 0, handled |-> {},
   renders |-> 0, domReads |-> 0, source |-> "none"]
\* no component has called useSignIn yet
NoForm == [mounted |-> FALSE]

\* no Protect element has rendered yet
NoRender ==
  [props |-> [roles |-> <<>>, realmRoles |-> <<>>, fallback |-> Undefined,
              loading |-> FALSE],
   out |-> "none"]

VARIABLES
  mounted,          \* the provider component is mounted
  keycloak,         \* useState<Keycloak | null>: 0 or a client index
  isLoading,        \* useState(true)
  isAuthenticated,  \* useState(false)
  user,             \* useState<User | null>: <<>> or <<User>>
  initializingRef,  \* useRef(false)
  initializedRef,   \* useRef(false)
  value,            \* the memoised context value consumers read
  clients,          \* the keycloak-js clients constructed so far
  events,           \* lifecycle events fired by the clients
  lastEvent,        \* the handler that ran last, and how its promise settled
  notifyLog,        \* calls of onAuthStateChange: <<isAuthenticated, user>>
  expiredCalls,     \* calls of the onTokenExpired prop
  errorLog,         \* calls of onError
  updateTokenCalls, \* calls of client.updateToken: <<client, minValidity>>
  getTokenPending,  \* client an in-flight getToken awaits (0: none)
  getTokenResult,   \* how the last getToken call settled
  loginCalls,       \* calls of client.login: <<client, redirectUri>>
  protect,          \* the last render of a Protect element
  signInCalls,      \* calls of the context's signIn: the redirectUri option
  signedIn,         \* the last render of a SignedIn element
  signedOut,        \* the last render of a SignedOut element
  input,            \* the arguments a function under test is applied to
  output,           \* the function applied last, and what it returned
  fetchCalls,       \* the fetchLoginConfig calls started: position, outcome
  configProvider,   \* a ConfigProvider: its props, state and current effect
  form,             \* a component using useSignIn: options, state, calls made
  registerCalls     \* calls of client.register: <<client, redirectUri>>

provVars == <<mounted, keycloak, isLoading, isAuthenticated, user,
              initializingRef, initializedRef, value>>
logVars == <<notifyLog, expiredCalls, errorLog>>
tokVars == <<updateTokenCalls, getTokenPending, getTokenResult>>
uiVars == <<loginCalls, protect, signInCalls, signedIn, signedOut>>
fnVars == <<input, output, fetchCalls, configProvider, form, registerCalls>>
conVars == <<uiVars, fnVars>>
vars == <<provVars, clients, events, lastEvent, logVars, tokVars, conVars>>

\* what lastEvent records: the handler, its client, the promise outcome
Event(type, client, detail) ==
  [type |-> type, client |-> client, detail |-> detail]

\* ---- the keycloak-js client (environment) ----

NewClient ==
  [init |-> "pending", rejection |-> <<>>,
   hasToken |-> FALSE, expiryArmed |-> FALSE,
   token |-> 0, idToken |-> 0,
   idTokenParsed |-> <<>>, tokenParsed |-> <<>>,
   resourceRoles |-> {}, realmRoles |-> {}]

\* the client stores a freshly obtained token set and arms its expiry timer
AcquireTokens(c, ts) ==
  [c EXCEPT !.hasToken = TRUE, !.expiryArmed = TRUE,
            !.token = 1, !.idToken = 1,
            !.idTokenParsed = ts.idTokenParsed,
            !.tokenParsed = ts.tokenParsed,
            !.resourceRoles = ts.resourceRoles,
            !.realmRoles = ts.realmRoles]

\* clearToken()
ClearTokens(c) ==
  [c EXCEPT !.hasToken = FALSE, !.expiryArmed = FALSE,
            !.token = 0, !.idToken = 0,
            !.idTokenParsed = <<>>, !.tokenParsed = <<>>,
            !.resourceRoles = {}, !.realmRoles = {}]

ClientIds == 1..Len(clients)

\* ---- KeycloakAuthProvider ----

\* a projection that reads the access token first
extractUserAccessFirst(kc) ==
  LET tokenParsed == IF kc.tokenParsed # <<>> THEN kc.tokenParsed
                     ELSE kc.idTokenParsed
  IN IF tokenParsed = <<>> THEN <<>>
     ELSE LET t == tokenParsed[1]
          IN << [id |-> t.sub,
                 email |-> t.email,
                 emailVerified |-> t.email_verified,
                 name |-> t.name,
                 firstName |-> t.given_name,
                 lastName |-> t.family_name,
                 username |-> t.preferred_username,
                 imageUrl |-> t.picture,
                 claims |-> t] >>

\* extractUser(keycloak)
extractUser(kc) ==
  LET tokenParsed == IF kc.idTokenParsed # <<>> THEN kc.idTokenParsed
                     ELSE kc.tokenParsed
  IN IF tokenParsed = <<>> THEN <<>>
     ELSE LET t == tokenParsed[1]
          IN << [id |-> t.sub,
                 email |-> t.email,
                 emailVerified |-> t.email_verified,
                 name |-> t.name,
                 firstName |-> t.given_name,
                 lastName |-> t.family_name,
                 username |-> t.preferred_username,
                 imageUrl |-> t.picture,
                 claims |-> t] >>

\* useMemo(() => ({isLoading, isAuthenticated, user, idToken, accessToken,
\* keycloak, ...}), [isLoading, isAuthenticated, user, keycloak, ...]):
\* recomputed, reading the client's tokens, only when a dependency changed
MemoValue(old, il, ia, u, kc, cls) ==
  IF old.isLoading = il /\ old.isAuthenticated = ia /\ old.user = u
     /\ old.keycloak = kc
  THEN old
  ELSE [isLoading |-> il, isAuthenticated |-> ia, user |-> u,
        idToken |-> IF kc = 0 THEN 0 ELSE cls[kc].idToken,
        accessToken |-> IF kc = 0 THEN 0 ELSE cls[kc].token,
        keycloak |-> kc]

\* one batched render after a handler's setState calls; a no-op once unmounted
Render(il, ia, u, kc, cls) ==
  IF mounted
  THEN /\ isLoading' = il
       /\ isAuthenticated' = ia
       /\ user' = u
       /\ keycloak' = kc
       /\ value' = MemoValue(value, il, ia, u, kc, cls)
  ELSE UNCHANGED <<isLoading, isAuthenticated, user, keycloak, value>>

InitProvider ==
  /\ mounted = TRUE
  /\ keycloak = 0
  /\ isLoading = TRUE
  /\ isAuthenticated = FALSE
  /\ user = <<>>
  /\ initializingRef = FALSE
  /\ initializedRef = FALSE
  /\ value = [isLoading |-> TRUE, isAuthenticated |-> FALSE, user |-> <<>>,
              idToken |-> 0, accessToken |-> 0, keycloak |-> 0]
  /\ clients = <<>>
  /\ events = 0
  /\ lastEvent = Event("none", 0, "")
  /\ notifyLog = <<>>
  /\ expiredCalls = 0
  /\ errorLog = <<>>
  /\ updateTokenCalls = <<>>
  /\ getTokenPending = 0
  /\ getTokenResult = [status |-> "none", value |-> 0]
  /\ loginCalls = <<>>
  /\ protect = NoRender
  /\ signInCalls = <<>>
  /\ signedIn = NoGateRender
  /\ signedOut = NoGateRender
  /\ fetchCalls = <<>>
  /\ configProvider = NoConfigProvider
  /\ form = NoForm
  /\ registerCalls = <<>>

Init ==
  /\ InitProvider
  /\ input = NoInput
  /\ output = NoCall

\* the setup effect skipping a run: the guard of lines 556-558
EffectSkips == initializingRef \/ initializedRef

\* useEffect(() => {...}, [url, realm, clientId, initOptions]): runs after
\* mount, again on a strict-mode remount and whenever a dependency changed
SetupEffect ==
  /\ mounted
  /\ IF EffectSkips
     THEN /\ lastEvent' = Event("effectSkipped", 0, "")
          /\ UNCHANGED <<initializingRef, clients>>
     ELSE /\ Len(clients) < MaxClients
          /\ initializingRef' = TRUE
          \* new Keycloak(config), handlers attached, kc.init(...) called
          /\ clients' = Append(clients, NewClient)
          /\ lastEvent' = Event("init", Len(clients) + 1, "")
  /\ UNCHANGED <<mounted, keycloak, isLoading, isAuthenticated, user,
                 initializedRef, value, events, logVars, tokVars, conVars>>

\* the owning scope ends; the setup effect returns no cleanup function
Unmount ==
  /\ mounted
  /\ mounted' = FALSE
  /\ lastEvent' = Event("unmount", 0, "")
  /\ UNCHANGED <<keycloak, isLoading, isAuthenticated, user, initializingRef,
                 initializedRef, value, clients, events,
                 logVars, tokVars, conVars>>

\* a variant of the expiry handler that refreshes the token silently instead
\* of ending the session
OnTokenExpiredRefreshes(k) ==
  /\ k \in ClientIds
  /\ clients[k].init # "rejected"
  /\ clients[k].hasToken /\ clients[k].expiryArmed
  /\ events < MaxEvents
  /\ events' = events + 1
  /\ clients' = [clients EXCEPT ![k].expiryArmed = FALSE]
  /\ updateTokenCalls' = Append(updateTokenCalls, <<k, MinValidity>>)
  /\ expiredCalls' = expiredCalls + 1
  /\ lastEvent' = Event("tokenExpired", k, "")
  /\ UNCHANGED <<provVars, notifyLog, errorLog, getTokenPending,
                 getTokenResult, conVars>>

\* kc.onTokenExpired = () => {...}
OnTokenExpired(k) ==
  /\ k \in ClientIds
  /\ clients[k].init # "rejected"
  /\ clients[k].hasToken /\ clients[k].expiryArmed
  /\ events < MaxEvents
  /\ events' = events + 1
  /\ clients' = [clients EXCEPT ![k].expiryArmed = FALSE]
  /\ Render(isLoading, FALSE, <<>>, keycloak, clients')
  /\ notifyLog' = Append(notifyLog, <<FALSE, <<>>>>)
  /\ expiredCalls' = expiredCalls + 1
  /\ lastEvent' = Event("tokenExpired", k, "")
  /\ UNCHANGED <<mounted, initializingRef, initializedRef, errorLog,
                 tokVars, conVars>>

\* kc.onAuthSuccess = () => {...}; the client has just obtained its tokens
OnAuthSuccess(k) ==
  /\ k \in ClientIds
  /\ clients[k].init # "rejected"
  /\ ~clients[k].hasToken
  /\ events < MaxEvents
  /\ events' = events + 1
  /\ \E ts \in TokenSets :
       /\ clients' = [clients EXCEPT ![k] = AcquireTokens(@, ts)]
       /\ LET extractedUser == extractUser(clients'[k])
          IN /\ Render(isLoading, TRUE, extractedUser, keycloak, clients')
             /\ notifyLog' = Append(notifyLog, <<TRUE, extractedUser>>)
  /\ lastEvent' = Event("authSuccess", k, "")
  /\ UNCHANGED <<mounted, initializingRef, initializedRef, expiredCalls,
                 errorLog, tokVars, conVars>>

\* a variant of the logout handler that forgets setUser(null)
OnAuthLogoutKeepsUser(k) ==
  /\ k \in ClientIds
  /\ clients[k].init # "rejected"
  /\ clients[k].hasToken
  /\ events < MaxEvents
  /\ events' = events + 1
  /\ clients' = [clients EXCEPT ![k] = ClearTokens(@)]
  /\ Render(isLoading, FALSE, user, keycloak, clients')
  /\ notifyLog' = Append(notifyLog, <<FALSE, <<>>>>)
  /\ lastEvent' = Event("authLogout", k, "")
  /\ UNCHANGED <<mounted, initializingRef, initializedRef, expiredCalls,
                 errorLog, tokVars, conVars>>

\* kc.onAuthLogout = () => {...}; the client has just cleared its tokens
OnAuthLogout(k) ==
  /\ k \in ClientIds
  /\ clients[k].init # "rejected"
  /\ clients[k].hasToken
  /\ events < MaxEvents
  /\ events' = events + 1
  /\ clients' = [clients EXCEPT ![k] = ClearTokens(@)]
  /\ Render(isLoading, FALSE, <<>>, keycloak, clients')
  /\ notifyLog' = Append(notifyLog, <<FALSE, <<>>>>)
  /\ lastEvent' = Event("authLogout", k, "")
  /\ UNCHANGED <<mounted, initializingRef, initializedRef, expiredCalls,
                 errorLog, tokVars, conVars>>

\* a variant of the init completion that forgets setIsLoading(false)
InitResolvedKeepsLoading(k, authenticated) ==
  /\ k \in ClientIds
  /\ clients[k].init = "pending"
  /\ authenticated = FALSE => ~clients[k].hasToken
  /\ \E ts \in TokenSets :
       /\ clients' = [clients EXCEPT ![k] =
            [(IF authenticated /\ ~@.hasToken THEN AcquireTokens(@, ts) ELSE @)
               EXCEPT !.init = "resolved"]]
       /\ LET extractedUser ==
                IF authenticated THEN extractUser(clients'[k]) ELSE <<>>
          IN /\ Render(isLoading, authenticated, extractedUser, k, clients')
             /\ notifyLog' = Append(notifyLog, <<authenticated, extractedUser>>)
  /\ initializedRef' = TRUE
  /\ initializingRef' = FALSE
  /\ lastEvent' = Event("initResolved", k,
                        IF authenticated THEN "true" ELSE "false")
  /\ UNCHANGED <<mounted, events, expiredCalls, errorLog, tokVars, conVars>>

\* kc.init(...).then((authenticated) => {...})
InitResolved(k, authenticated) ==
  /\ k \in ClientIds
  /\ clients[k].init = "pending"
  /\ authenticated = FALSE => ~clients[k].hasToken
  /\ \E ts \in TokenSets :
       /\ clients' = [clients EXCEPT ![k] =
            [(IF authenticated /\ ~@.hasToken THEN AcquireTokens(@, ts) ELSE @)
               EXCEPT !.init = "resolved"]]
       /\ LET extractedUser ==
                IF authenticated THEN extractUser(clients'[k]) ELSE <<>>
          IN /\ Render(FALSE, authenticated, extractedUser, k, clients')
             /\ notifyLog' = Append(notifyLog, <<authenticated, extractedUser>>)
  /\ initializedRef' = TRUE
  /\ initializingRef' = FALSE
  /\ lastEvent' = Event("initResolved", k,
                      IF authenticated THEN "true" ELSE "false")
  /\ UNCHANGED <<mounted, events, expiredCalls, errorLog, tokVars, conVars>>

\* error instanceof Error ? error : new Error(String(error))
ToError(error) ==
  IF error.isError THEN error ELSE [isError |-> TRUE, message |-> error.message]

\* kc.init(...).catch((error) => {...})
InitRejected(k, error) ==
  /\ k \in ClientIds
  /\ clients[k].init = "pending"
  /\ clients' = [clients EXCEPT ![k].init = "rejected",
                                ![k].rejection = <<error>>]
  /\ initializingRef' = FALSE
  /\ Render(FALSE, isAuthenticated, user, keycloak, clients')
  /\ errorLog' = Append(errorLog, ToError(error))
  /\ lastEvent' = Event("initRejected", k, "")
  /\ UNCHANGED <<mounted, initializedRef, events, notifyLog, expiredCalls,
                 tokVars, conVars>>

\* const getToken = useCallback(async () => {...}, [keycloak]): the part up
\* to the await
GetToken ==
  /\ getTokenPending = 0
  /\ IF keycloak = 0
     THEN /\ getTokenResult' = [status |-> "resolved", value |-> 0]
          /\ UNCHANGED <<updateTokenCalls, getTokenPending>>
     ELSE /\ Len(updateTokenCalls) < MaxGetToken
          /\ updateTokenCalls' = Append(updateTokenCalls, <<keycloak, MinValidity>>)
          /\ getTokenPending' = keycloak
          /\ getTokenResult' = [status |-> "pending", value |-> 0]
  /\ lastEvent' = Event("getToken", keycloak, "")
  /\ UNCHANGED <<provVars, clients, events, logVars, conVars>>

\* a variant of getToken without the try/catch
GetTokenOutcomeUncaught(ok, kc) ==
  IF ok THEN [status |-> "resolved", value |-> kc.token]
  ELSE [status |-> "rejected", value |-> 0]

\* how the awaited updateToken ends, as getToken sees it: try { await ...;
\* return keycloak.token } catch { return undefined }
GetTokenOutcome(ok, kc) ==
  IF ok THEN [status |-> "resolved", value |-> kc.token]
  ELSE [status |-> "resolved", value |-> 0]

\* the client's updateToken promise settles: the token was still valid, was
\* refreshed, or the refresh failed; then getToken's continuation runs
GetTokenSettled(outcome) ==
  /\ getTokenPending # 0
  /\ LET k == getTokenPending
     IN /\ outcome \in {"valid", "refreshed"} => clients[k].hasToken
        /\ clients' = IF outcome = "refreshed"
                      THEN [clients EXCEPT ![k].token = @ + 1,
                                           ![k].expiryArmed = TRUE]
                      ELSE clients
        /\ getTokenResult' = GetTokenOutcome(outcome # "failed", clients'[k])
        /\ lastEvent' = Event("getTokenSettled", k, outcome)
  /\ getTokenPending' = 0
  /\ UNCHANGED <<provVars, events, logVars, updateTokenCalls, conVars>>

\* options?.redirectUri || window.location.href
LoginRedirect(redirectUri) ==
  IF redirectUri = Undefined \/ redirectUri = "" THEN "location.href"
  ELSE redirectUri

\* signIn(options) of the context value a consumer holds: the login calls it
\* leaves behind
signIn(redirectUri) ==
  IF value.keycloak = 0 THEN loginCalls
  ELSE Append(loginCalls, <<value.keycloak, LoginRedirect(redirectUri)>>)

\* keycloak.hasResourceRole(role), keycloak.hasRealmRole(role)
hasResourceRole(kc, role) == role \in clients[kc].resourceRoles
hasRealmRole(kc, role) == role \in clients[kc].realmRoles

\* if (roles && roles.length > 0 && keycloak) { ... if (!hasRole) return null }
ResourceRoleCheckHides(props) ==
  /\ props.roles # <<>>
  /\ props.roles[1] # {}
  /\ value.keycloak # 0
  /\ ~(\E role \in props.roles[1] : hasResourceRole(value.keycloak, role))

\* if (realmRoles && realmRoles.length > 0 && keycloak) { ... }
RealmRoleCheckHides(props) ==
  /\ props.realmRoles # <<>>
  /\ props.realmRoles[1] # {}
  /\ value.keycloak # 0
  /\ ~(\E role \in props.realmRoles[1] : hasRealmRole(value.keycloak, role))

\* what Protect returns for the context value it reads
ProtectOutput(props) ==
  IF value.isLoading
  THEN IF props.loading THEN "loading" ELSE "null"
  ELSE IF ~value.isAuthenticated
  THEN IF props.fallback = Undefined THEN "null"
       ELSE IF props.fallback = "function" THEN "fallbackFn"
       ELSE "fallback"
  ELSE IF ResourceRoleCheckHides(props) THEN "null"
  ELSE IF RealmRoleCheckHides(props) THEN "null"
  ELSE "children"

\* a Protect that redirects before it looks at isLoading
ProtectSignsInWhileLoading(props) ==
  ~value.isAuthenticated /\ props.fallback = Undefined

\* Protect calls signIn() while rendering: unauthenticated, no fallback
ProtectSignsIn(props) ==
  ~value.isLoading /\ ~value.isAuthenticated /\ props.fallback = Undefined

\* a consumer calls the signIn function of the context value
CallSignIn(redirectUri) ==
  /\ Len(signInCalls) < MaxLoginCalls
  /\ signInCalls' = Append(signInCalls, redirectUri)
  /\ loginCalls' = signIn(redirectUri)

\* one render of <Protect ...props> under the provider
ProtectRender(props) ==
  /\ mounted
  /\ protect' = [props |-> props, out |-> ProtectOutput(props)]
  /\ IF ProtectSignsIn(props)
     THEN CallSignIn(Undefined)
     ELSE UNCHANGED <<loginCalls, signInCalls>>
  /\ lastEvent' = Event("protect", value.keycloak, "")
  /\ UNCHANGED <<provVars, clients, events, logVars, tokVars, signedIn,
                 signedOut, fnVars>>

\* fallback(() => signIn()): the content the function fallback returned
\* activates the trigger it was given
ProtectTrigger ==
  /\ mounted
  /\ protect.out = "fallbackFn"
  /\ CallSignIn(Undefined)
  /\ lastEvent' = Event("protectTrigger", value.keycloak, "")
  /\ UNCHANGED <<provVars, clients, events, logVars, tokVars, protect,
                 signedIn, signedOut, fnVars>>

\* what SignedIn returns for the context value it reads
SignedIn(fallback) ==
  IF value.isLoading
  THEN IF fallback = "node" THEN "fallback" ELSE "null"
  ELSE IF ~value.isAuthenticated THEN "null"
  ELSE "children"

\* a SignedOut that does not wait for the loading phase to end
SignedOutIgnoresLoading(fallback) ==
  IF value.isAuthenticated THEN "null" ELSE "children"

\* what SignedOut returns for the context value it reads
SignedOut(fallback) ==
  IF value.isLoading
  THEN IF fallback = "node" THEN "fallback" ELSE "null"
  ELSE IF value.isAuthenticated THEN "null"
  ELSE "children"

\* one render of <SignedIn fallback=...> under the provider
SignedInRender(fallback) ==
  /\ mounted
  /\ signedIn' = [fallback |-> fallback, out |-> SignedIn(fallback)]
  /\ lastEvent' = Event("signedIn", value.keycloak, "")
  /\ UNCHANGED <<provVars, clients, events, logVars, tokVars, loginCalls,
                 protect, signInCalls, signedOut, fnVars>>

\* one render of <SignedOut fallback=...> under the provider
SignedOutRender(fallback) ==
  /\ mounted
  /\ signedOut' = [fallback |-> fallback, out |-> SignedOut(fallback)]
  /\ lastEvent' = Event("signedOut", value.keycloak, "")
  /\ UNCHANGED <<provVars, clients, events, logVars, tokVars, loginCalls,
                 protect, signInCalls, signedIn, fnVars>>

\* the provider and its client
Provider ==
  \/ SetupEffect
  \/ Unmount
  \/ \E k \in 1..MaxClients : OnTokenExpired(k)
  \/ \E k \in 1..MaxClients : OnAuthSuccess(k)
  \/ \E k \in 1..MaxClients : OnAuthLogout(k)
  \/ \E k \in 1..MaxClients, b \in BOOLEAN : InitResolved(k, b)
  \/ \E k \in 1..MaxClients, e \in RejectionValues : InitRejected(k, e)

Next ==
  \/ Provider
  \/ GetToken
  \/ \E o \in {"valid", "refreshed", "failed"} : GetTokenSettled(o)

Spec == Init /\ [][Next]_vars

\* A consumer under test is rendered below <AuthContext.Provider value=...>
\* with a context value in one of the shapes the provider publishes:
\* loading (no client handle yet, possibly already marked authenticated by a
\* login-success event), settled with a handle (init resolved), or settled
\* without one (init rejected).
InitConsumers ==
  \E il \in BOOLEAN, ia \in BOOLEAN, kc \in {0, 1}, held \in BOOLEAN,
     ts \in TokenSets :
    /\ kc # 0 => ~il
    /\ ia => held
    /\ LET c == [(IF held THEN AcquireTokens(NewClient, ts) ELSE NewClient)
                   EXCEPT !.init = IF kc # 0 THEN "resolved"
                                   ELSE IF il THEN "pending" ELSE "rejected"]
           u == IF ia THEN extractUser(c) ELSE <<>>
       IN /\ clients = <<c>>
          /\ user = u
          /\ value = [isLoading |-> il, isAuthenticated |-> ia, user |-> u,
                      idToken |-> IF kc = 0 THEN 0 ELSE c.idToken,
                      accessToken |-> IF kc = 0 THEN 0 ELSE c.token,
                      keycloak |-> kc]
    /\ mounted = TRUE
    /\ keycloak = kc
    /\ isLoading = il
    /\ isAuthenticated = ia
    /\ initializingRef = il
    /\ initializedRef = (kc # 0)
    /\ events = 0
    /\ lastEvent = Event("none", 0, "")
    /\ notifyLog = <<>>
    /\ expiredCalls = 0
    /\ errorLog = <<>>
    /\ updateTokenCalls = <<>>
    /\ getTokenPending = 0
    /\ getTokenResult = [status |-> "none", value |-> 0]
    /\ loginCalls = <<>>
    /\ protect = NoRender
    /\ signInCalls = <<>>
    /\ signedIn = NoGateRender
    /\ signedOut = NoGateRender
    /\ input = NoInput
    /\ output = NoCall
    /\ fetchCalls = <<>>
    /\ configProvider = NoConfigProvider
    /\ form = NoForm
    /\ registerCalls = <<>>

NextConsumers ==
  \/ \E props \in ProtectProps : ProtectRender(props)
  \/ ProtectTrigger

ConsumerSpec == InitConsumers /\ [][NextConsumers]_vars

\* SignedIn and SignedOut elements rendered under the same context value
NextGates ==
  \/ \E fallback \in GateFallbacks : SignedInRender(fallback)
  \/ \E fallback \in GateFallbacks : SignedOutRender(fallback)

GateSpec == InitConsumers /\ [][NextGates]_vars


\* ---- token decoding (account.ts) ----
\* A string is a sequence of one-character strings; a binary string and a
\* decoded text are sequences of numbers (octets, code points).

\* the printable ASCII characters in code order: from the space (32) to the
\* underscore (95), and from "a" (97) to the tilde (126)
AsciiTable ==
  <<" ", "!", "\"", "#", "$", "%", "&", "'", "(", ")", "*", "+", ",", "-",
    ".", "/", "0", "1", "2", "3", "4", "5", "6", "7", "8", "9", ":", ";",
    "<", "=", ">", "?", "@", "A", "B", "C", "D", "E", "F", "G", "H", "I",
    "J", "K", "L", "M", "N", "O", "P", "Q", "R", "S", "T", "U", "V", "W",
    "X", "Y", "Z", "[", "\\", "]", "^", "_">>

AsciiLowerTable ==
  <<"a", "b", "c", "d", "e", "f", "g", "h", "i", "j", "k", "l", "m", "n",
    "o", "p", "q", "r", "s", "t", "u", "v", "w", "x", "y", "z", "{", "|",
    "}", "~">>

\* c.charCodeAt(0) of a printable ASCII character
CharCode(c) ==
  IF \E i \in 1..Len(AsciiTable) : AsciiTable[i] = c
  THEN 31 + CHOOSE i \in 1..Len(AsciiTable) : AsciiTable[i] = c
  ELSE 96 + CHOOSE i \in 1..Len(AsciiLowerTable) : AsciiLowerTable[i] = c

\* the text of a string literal
Str(chars) == [i \in 1..Len(chars) |-> CharCode(chars[i])]

\* the base64 alphabet of atob / btoa, in value order
Base64Alphabet ==
  <<"A", "B", "C", "D", "E", "F", "G", "H", "I", "J", "K", "L", "M", "N",
    "O", "P", "Q", "R", "S", "T", "U", "V", "W", "X", "Y", "Z", "a", "b",
    "c", "d", "e", "f", "g", "h", "i", "j", "k", "l", "m", "n", "o", "p",
    "q", "r", "s", "t", "u", "v", "w", "x", "y", "z", "0", "1", "2", "3",
    "4", "5", "6", "7", "8", "9", "+", "/">>

Base64Pad == "="
AsciiWhitespace == {" ", "\n"}

Base64Chars == {Base64Alphabet[i] : i \in 1..Len(Base64Alphabet)}

\* the 6-bit value of each character: its place in the alphabet
Base64Values ==
  [c \in Base64Chars |->
     (CHOOSE i \in 1..Len(Base64Alphabet) : Base64Alphabet[i] = c) - 1]

Base64Value(c) == Base64Values[c]

\* a call that either returned a value or threw
Returned(v) == [threw |-> FALSE, value |-> v]
Threw == [threw |-> TRUE, value |-> <<>>]

\* s.split(sep) for a one-character separator
RECURSIVE split(_, _)
split(s, sep) ==
  IF \A i \in 1..Len(s) : s[i] # sep THEN <<s>>
  ELSE LET i == CHOOSE j \in 1..Len(s) :
                  s[j] = sep /\ \A h \in 1..(j - 1) : s[h] # sep
       IN <<SubSeq(s, 1, i - 1)>> \o split(SubSeq(s, i + 1, Len(s)), sep)

\* s.replace(/from/g, to) for single characters
replace(s, from, to) ==
  [i \in 1..Len(s) |-> IF s[i] = from THEN to ELSE s[i]]

\* the octets a run of 6-bit values stands for: 4 values give 3 octets, a
\* trailing 2 give 1 and a trailing 3 give 2 (the spare low bits are dropped)
Base64Octets(v) ==
  LET Val(i) == IF i <= Len(v) THEN v[i] ELSE 0
      count == ((Len(v) \div 4) * 3)
               + (IF Len(v) % 4 = 0 THEN 0 ELSE (Len(v) % 4) - 1)
      Group(g) == (Val((4 * g) + 1) * 262144) + (Val((4 * g) + 2) * 4096)
                  + (Val((4 * g) + 3) * 64) + Val((4 * g) + 4)
  IN [j \in 1..count |->
        LET n == Group((j - 1) \div 3)
            k == (j - 1) % 3
        IN IF k = 0 THEN n \div 65536
           ELSE IF k = 1 THEN (n \div 256) % 256
           ELSE n % 256]

\* atob(data): forgiving base64 decoding. ASCII whitespace is dropped; if the
\* length is then a multiple of 4, one or two trailing "=" are dropped; a
\* length of 1 modulo 4 or any character outside the alphabet throws.
atob(data) ==
  LET NotSpace(c) == c \notin AsciiWhitespace
      s == SelectSeq(data, NotSpace)
      n == Len(s)
      t == IF n % 4 = 0 /\ n >= 2 /\ s[n] = Base64Pad
                /\ s[n - 1] = Base64Pad
           THEN SubSeq(s, 1, n - 2)
           ELSE IF n % 4 = 0 /\ n >= 1 /\ s[n] = Base64Pad
           THEN SubSeq(s, 1, n - 1)
           ELSE s
  IN IF Len(t) % 4 = 1 THEN Threw
     ELSE IF \E i \in 1..Len(t) : t[i] \notin Base64Chars THEN Threw
     ELSE Returned(Base64Octets([i \in 1..Len(t) |-> Base64Value(t[i])]))

\* .split("").map((c) => "%" + ("00" + c.charCodeAt(0).toString(16))
\* .slice(-2)).join(""): every character becomes "%" and two hex digits
PercentEncode(bin) ==
  [i \in 1..Len(bin) |-> <<bin[i] \div 16, bin[i] % 16>>]

\* octets 128..191 continue a UTF-8 sequence, every other octet starts one
IsUtf8Continuation(octet) == octet >= 128 /\ octet < 192

\* the length of the sequence a leading octet announces (0: not a lead)
Utf8Length(lead) ==
  IF lead < 128 THEN 1
  ELSE IF lead >= 192 /\ lead < 224 THEN 2
  ELSE IF lead >= 224 /\ lead < 240 THEN 3
  ELSE IF lead >= 240 /\ lead < 248 THEN 4
  ELSE 0

\* the code point the sequence starting at octet i encodes
Utf8Scalar(o, i) ==
  LET len == Utf8Length(o[i])
  IN IF len = 1 THEN o[i]
     ELSE IF len = 2 THEN ((o[i] % 32) * 64) + (o[i + 1] % 64)
     ELSE IF len = 3
     THEN ((o[i] % 16) * 4096) + ((o[i + 1] % 64) * 64) + (o[i + 2] % 64)
     ELSE ((o[i] % 8) * 262144) + ((o[i + 1] % 64) * 4096)
          + ((o[i + 2] % 64) * 64) + (o[i + 3] % 64)

\* the sequence starting at octet i is well formed: as many continuation
\* octets as announced and no more, the shortest encoding of its code point,
\* no surrogate, nothing above U+10FFFF
Utf8WellFormed(o, i) ==
  LET len == Utf8Length(o[i])
      least == IF len = 1 THEN 0 ELSE IF len = 2 THEN 128
               ELSE IF len = 3 THEN 2048 ELSE 65536
  IN /\ len # 0
     /\ i + len - 1 <= Len(o)
     /\ \A j \in (i + 1)..(i + len - 1) : IsUtf8Continuation(o[j])
     /\ i + len <= Len(o) => ~IsUtf8Continuation(o[i + len])
     /\ Utf8Scalar(o, i) >= least
     /\ Utf8Scalar(o, i) <= 1114111
     /\ ~(Utf8Scalar(o, i) >= 55296 /\ Utf8Scalar(o, i) <= 57343)

\* the text a run of octets encodes in UTF-8
Utf8Decode(o) ==
  LET IsLead(i) == ~IsUtf8Continuation(o[i])
      leads == SelectSeq([i \in 1..Len(o) |-> i], IsLead)
  IN IF /\ Len(o) > 0 => IsLead(1)
        /\ \A k \in 1..Len(leads) : Utf8WellFormed(o, leads[k])
     THEN Returned([k \in 1..Len(leads) |-> Utf8Scalar(o, leads[k])])
     ELSE Threw

\* decodeURIComponent of a string made of "%XX" escapes only: the octets are
\* read as UTF-8; a malformed sequence throws URIError
decodeURIComponent(escaped) ==
  Utf8Decode([i \in 1..Len(escaped) |->
                (escaped[i][1] * 16) + escaped[i][2]])

\* ---- JSON (JSON.stringify / JSON.parse of the runtime) ----
\* JSON values: null, a one-digit number, a string, or an object whose
\* members are strings (a claim set)
Null == [kind |-> "null"]
JsonNumber(d) == [kind |-> "number", digit |-> d]
JsonString(text) == [kind |-> "string", text |-> text]
JsonObject(members) == [kind |-> "object", members |-> members]

\* the claim names of UserTokenClaims, in the order an object lists them
ClaimNames ==
  <<"sub", "name", "given_name", "family_name", "email",
    "preferred_username", "picture">>

ClaimNameText ==
  [sub |-> Str(<<"s", "u", "b">>),
   name |-> Str(<<"n", "a", "m", "e">>),
   given_name |-> Str(<<"g", "i", "v", "e", "n", "_", "n", "a", "m", "e">>),
   family_name |->
     Str(<<"f", "a", "m", "i", "l", "y", "_", "n", "a", "m", "e">>),
   email |-> Str(<<"e", "m", "a", "i", "l">>),
   preferred_username |->
     Str(<<"p", "r", "e", "f", "e", "r", "r", "e", "d", "_", "u", "s", "e",
           "r", "n", "a", "m", "e">>),
   picture |-> Str(<<"p", "i", "c", "t", "u", "r", "e">>)]

Quoted(text) == Str(<<"\"">>) \o text \o Str(<<"\"">>)

\* the members of an object, comma separated, from the i-th claim name on
RECURSIVE JsonMembers(_, _, _)
JsonMembers(members, i, first) ==
  IF i > Len(ClaimNames) THEN <<>>
  ELSE IF ClaimNames[i] \notin DOMAIN members
  THEN JsonMembers(members, i + 1, first)
  ELSE (IF first THEN <<>> ELSE Str(<<",">>))
       \o Quoted(ClaimNameText[ClaimNames[i]]) \o Str(<<":">>)
       \o Quoted(members[ClaimNames[i]])
       \o JsonMembers(members, i + 1, FALSE)

\* JSON.stringify(v)
JsonStringify(v) ==
  CASE v.kind = "null" -> Str(<<"n", "u", "l", "l">>)
    [] v.kind = "number" -> <<CharCode("0") + v.digit>>
    [] v.kind = "string" -> Quoted(v.text)
    [] OTHER -> Str(<<"{">>) \o JsonMembers(v.members, 1, TRUE)
                \o Str(<<"}">>)

\* the claim sets of the test realm's tokens (233 is the code point of e
\* with an acute accent, a two-octet character)
ClaimsObjects ==
  { JsonObject(<<>>),
    JsonObject([sub |-> Str(<<"u", "1">>)]),
    JsonObject([name |-> Str(<<"Z", "o">>) \o <<233>>]),
    JsonObject([given_name |-> Str(<<"Z", "o">>) \o <<233>>,
                family_name |-> Str(<<"B">>),
                picture |-> Str(<<"p", "i", "c">>)]),
    JsonObject([name |-> Str(<<"A", "n", "n", " ", "B">>),
                email |-> Str(<<"a", "@", "x">>),
                preferred_username |-> Str(<<"a", "b">>)]) }

\* the JSON documents the model knows: the claim sets and a few values that
\* are valid JSON but no claim set
JsonValues ==
  ClaimsObjects
    \cup {Null, JsonNumber(1), JsonString(Str(<<"o">>) \o <<233>>)}

\* JSON.parse(text): the value the text is the serialisation of; any other
\* text throws SyntaxError
JsonTexts == [v \in JsonValues |-> JsonStringify(v)]

JsonParse(text) ==
  IF \E v \in JsonValues : JsonTexts[v] = text
  THEN Returned(CHOOSE v \in JsonValues : JsonTexts[v] = text)
  ELSE Threw

\* a decoder that feeds the payload to atob as it is
DecodePayloadNoUrlAlphabet(token) ==
  LET parts == split(token, ".")
  IN IF Len(parts) # 3 THEN Returned(Null)
     ELSE LET bin == atob(parts[2])
          IN IF bin.threw THEN Threw
             ELSE LET jsonPayload ==
                        decodeURIComponent(PercentEncode(bin.value))
                  IN IF jsonPayload.threw THEN Threw
                     ELSE JsonParse(jsonPayload.value)

\* the body of decodeToken's try block
DecodePayload(token) ==
  LET parts == split(token, ".")
  IN IF Len(parts) # 3 THEN Returned(Null)
     ELSE LET payload == parts[2]
              base64 == replace(replace(payload, "-", "+"), "_", "/")
              bin == atob(base64)
          IN IF bin.threw THEN Threw
             ELSE LET jsonPayload ==
                        decodeURIComponent(PercentEncode(bin.value))
                  IN IF jsonPayload.threw THEN Threw
                     ELSE JsonParse(jsonPayload.value)

\* a decodeToken without its catch clause
decodeTokenUncaught(token) == DecodePayload(token)

\* decodeToken(token): try { ... } catch { return null }
decodeToken(token) ==
  LET r == DecodePayload(token)
  IN IF r.threw THEN Returned(Null) ELSE r

\* getUserFromToken(token)
getUserFromToken(token) == decodeToken(token)

\* ---- building a token as the tests do ----
\* the UTF-8 octets of a text (code points below 65536): one, two or three
\* octets per code point
Utf8Encode(text) ==
  LET none == 256
      Octet(cp, k) ==
        IF cp < 128 THEN (IF k = 0 THEN cp ELSE none)
        ELSE IF cp < 2048
        THEN (IF k = 0 THEN 192 + (cp \div 64)
              ELSE IF k = 1 THEN 128 + (cp % 64) ELSE none)
        ELSE (IF k = 0 THEN 224 + (cp \div 4096)
              ELSE IF k = 1 THEN 128 + ((cp \div 64) % 64)
              ELSE 128 + (cp % 64))
      IsOctet(x) == x # none
  IN SelectSeq([j \in 1..(3 * Len(text)) |->
                  Octet(text[((j - 1) \div 3) + 1], (j - 1) % 3)], IsOctet)

\* btoa: standard base64 with "=" padding
btoa(o) ==
  LET Oct(i) == IF i <= Len(o) THEN o[i] ELSE 0
      Group(g) == (Oct((3 * g) + 1) * 65536) + (Oct((3 * g) + 2) * 256)
                  + Oct((3 * g) + 3)
  IN [j \in 1..(((Len(o) + 2) \div 3) * 4) |->
        LET g == (j - 1) \div 4
            k == (j - 1) % 4
            n == Group(g)
            v == IF k = 0 THEN n \div 262144
                 ELSE IF k = 1 THEN (n \div 4096) % 64
                 ELSE IF k = 2 THEN (n \div 64) % 64
                 ELSE n % 64
        IN IF k >= 2 /\ (3 * g) + k > Len(o) THEN Base64Pad
           ELSE Base64Alphabet[v + 1]]

\* base64url: "-" and "_" for "+" and "/", no padding
base64url(o) ==
  LET NotPad(c) == c # Base64Pad
  IN replace(replace(SelectSeq(btoa(o), NotPad), "+", "-"), "/", "_")

\* header + "." + payload + "." + signature
Encodings == {"base64url", "btoa"}
createToken(header, c, signature, encoding) ==
  LET o == Utf8Encode(JsonStringify(c))
  IN header \o <<".">>
       \o (IF encoding = "btoa" THEN btoa(o) ELSE base64url(o))
       \o <<".">> \o signature

\* ---- decodeToken / getUserFromToken applied to token strings ----
\* longest middle segment that is enumerated character by character
MaxMiddleLen == 3
\* most dot-separated segments of an enumerated token
MaxSegments == 4

\* characters of the enumerated middle segments: base64 characters (of
\* which "_" is base64url only), padding, whitespace and a character of
\* neither alphabet
MiddleAlphabet == {"e", "3", "0", "w", "_", "=", " ", "!"}

\* longer middle segments: padded and standard-alphabet encodings, a
\* multi-octet character, embedded whitespace
SpecialMiddles ==
  { <<"e", "3", "0", "=">>, <<"M", "Q", "=", "=">>,
    <<"I", "m", "_", "D", "q", "S", "I">>,
    <<"I", "m", "/", "D", "q", "S", "I", "=">>,
    <<"b", "n", "V", "s", "b", "A">>,
    <<"e", "3", "\n", "0", "=">>,
    <<"w", "6", "k">>, <<"w", "w">> }

Middles ==
  UNION {[1..n -> MiddleAlphabet] : n \in 0..MaxMiddleLen}
    \cup SpecialMiddles

\* header and signature segments
OuterSegments == {<<>>, <<"h">>}

\* the segments joined by dots
RECURSIVE JoinDots(_)
JoinDots(segs) ==
  IF Len(segs) = 1 THEN segs[1]
  ELSE segs[1] \o <<".">> \o JoinDots(Tail(segs))

\* the program state plays no part when a function is applied to arguments
InitFunction(args) ==
  /\ InitProvider
  /\ input \in args
  /\ output = NoCall

\* token strings: built from a claim set as the tests do, or arbitrary
\* strings of one to MaxSegments segments
TokenInputs ==
  { [fn |-> "token", token |-> createToken(h, c, s, e), claims |-> <<c>>] :
      h \in OuterSegments, c \in ClaimsObjects, s \in OuterSegments,
      e \in Encodings }
  \cup
  { [fn |-> "token",
     token |-> JoinDots(IF n = 1 THEN <<m>>
                        ELSE <<h, m>> \o [i \in 1..(n - 2) |-> s]),
     claims |-> <<>>] :
      n \in 1..MaxSegments, h \in OuterSegments, m \in Middles,
      s \in OuterSegments }

InitDecode == InitFunction(TokenInputs)

\* what a function application records
Applied(fn, result) == [fn |-> fn, result |-> result]

\* everything a function application leaves alone
fnFrame == <<provVars, clients, events, lastEvent, logVars, tokVars, uiVars,
             input, fetchCalls, configProvider, form, registerCalls>>

DecodeTokenCall ==
  /\ output' = Applied("decodeToken", decodeToken(input.token))
  /\ UNCHANGED fnFrame

GetUserFromTokenCall ==
  /\ output' = Applied("getUserFromToken", getUserFromToken(input.token))
  /\ UNCHANGED fnFrame

NextDecode == DecodeTokenCall \/ GetUserFromTokenCall

DecodeSpec == InitDecode /\ [][NextDecode]_vars

\* ---- UserAvatar / UserButton: where a user field comes from ----
\* An optional string is <<>> (null / undefined) or <<text>>; the text may be
\* empty.

\* a || b: an empty string counts as absent
CoalesceFalsy(a, b) == IF a # <<>> /\ a[1] # <<>> THEN a ELSE b

\* a ?? b
Coalesce(a, b) == IF a # <<>> THEN a ELSE b

\* tokenClaims?.[name]
Claim(tokenClaims, name) ==
  IF tokenClaims.kind = "object" /\ name \in DOMAIN tokenClaims.members
  THEN <<tokenClaims.members[name]>>
  ELSE <<>>

\* useMemo(() => { if (!token) return null; return decodeToken(token) })
TokenClaims(token) ==
  IF token = <<>> \/ token[1] = <<>> THEN Null
  ELSE decodeToken(token[1]).value

\* useContext(AuthContext)?.user?.[field]
ContextUserField(context, field) ==
  IF context = <<>> THEN <<>>
  ELSE IF context[1].user = <<>> THEN <<>>
  ELSE context[1].user[1][field]

\* the fields UserAvatar resolves (account.ts 305-309)
UserAvatar(props, context) ==
  LET tokenClaims == TokenClaims(props.token)
  IN [imageUrl |-> Coalesce(props.imageUrl,
                     Coalesce(Claim(tokenClaims, "picture"),
                              ContextUserField(context, "imageUrl"))),
      firstName |-> Coalesce(props.firstName,
                      Coalesce(Claim(tokenClaims, "given_name"),
                               ContextUserField(context, "firstName"))),
      lastName |-> Coalesce(props.lastName,
                     Coalesce(Claim(tokenClaims, "family_name"),
                              ContextUserField(context, "lastName"))),
      name |-> Coalesce(props.name,
                 Coalesce(Claim(tokenClaims, "name"),
                          ContextUserField(context, "name")))]

\* the fields UserButton resolves (UserButton.tsx 207-212)
UserButton(props, context) ==
  LET tokenClaims == TokenClaims(props.token)
  IN [imageUrl |-> Coalesce(props.imageUrl,
                     Coalesce(Claim(tokenClaims, "picture"),
                              ContextUserField(context, "imageUrl"))),
      firstName |-> Coalesce(props.firstName,
                      Coalesce(Claim(tokenClaims, "given_name"),
                               ContextUserField(context, "firstName"))),
      lastName |-> Coalesce(props.lastName,
                     Coalesce(Claim(tokenClaims, "family_name"),
                              ContextUserField(context, "lastName"))),
      name |-> Coalesce(props.name,
                 Coalesce(Claim(tokenClaims, "name"),
                          ContextUserField(context, "name"))),
      email |-> Coalesce(props.email,
                  Coalesce(Claim(tokenClaims, "email"),
                           ContextUserField(context, "email")))]

\* a string prop: not passed, the empty string, or a value
PropValues == {<<>>, << <<>> >>, <<Str(<<"P">>)>>}

\* the token prop: not passed, empty, undecodable, or a token of a claim set
TokenProps ==
  {<<>>, << <<>> >>, << <<"n", "o", ".", "t", "!", ".", "k">> >>}
    \cup {<<createToken(<<"h">>, c, <<"s">>, "base64url")>> :
            c \in ClaimsObjects}

\* the AuthContext value around the component: none (no provider), one
\* without a user, one whose user has every field or only some
AvatarContexts ==
  { <<>>,
    <<[user |-> <<>>]>>,
    <<[user |-> <<[imageUrl |-> <<Str(<<"U", "i">>)>>,
                   firstName |-> <<Str(<<"U", "f">>)>>,
                   lastName |-> <<Str(<<"U", "l">>)>>,
                   name |-> <<Str(<<"U", "n">>)>>,
                   email |-> <<Str(<<"U", "e">>)>>]>>]>>,
    <<[user |-> <<[imageUrl |-> <<>>,
                   firstName |-> <<Str(<<"U", "f">>)>>,
                   lastName |-> <<>>,
                   name |-> <<>>,
                   email |-> <<Str(<<"U", "e">>)>>]>>]>> }

AvatarInputs ==
  [fn : {"avatar"}, context : AvatarContexts,
   props : [token : TokenProps, imageUrl : PropValues,
            firstName : PropValues, lastName : PropValues,
            name : PropValues, email : PropValues]]

InitAvatar == InitFunction(AvatarInputs)

UserAvatarRender ==
  /\ output' = Applied("UserAvatar", UserAvatar(input.props, input.context))
  /\ UNCHANGED fnFrame

UserButtonRender ==
  /\ output' = Applied("UserButton", UserButton(input.props, input.context))
  /\ UNCHANGED fnFrame

NextAvatar == UserAvatarRender \/ UserButtonRender

AvatarSpec == InitAvatar /\ [][NextAvatar]_vars

\* ---- extractUser applied to clients in every token state ----
\* parsed tokens: any claim but sub may be missing
ParsedTokens ==
  [sub : {"u1", "u2"}, email : {Undefined, "a@x"},
   email_verified : {Undefined, "true"}, name : {Undefined, "A B"},
   given_name : {"A"}, family_name : {Undefined, "B"},
   preferred_username : {"ab"}, picture : {Undefined, "pic"}]

\* a client with or without a parsed ID token and a parsed access token
ProjectionInputs ==
  [fn : {"client"},
   kc : [idTokenParsed : {<<>>} \cup {<<t>> : t \in ParsedTokens},
         tokenParsed : {<<>>, <<AccessClaims>>, <<IdClaims>>}]]

InitProjection == InitFunction(ProjectionInputs)

ExtractUserCall ==
  /\ output' = Applied("extractUser", extractUser(input.kc))
  /\ UNCHANGED fnFrame

ProjectionSpec == InitProjection /\ [][ExtractUserCall]_vars

\* ---- consumer hooks inside and outside their providers ----
\* a thrown error: its name and its message
Thrown(name, message) == [threw |-> TRUE, name |-> name, message |-> message]

\* a hook that hands out a default value when there is no provider
useAuthWithDefault(context) ==
  IF context = <<>>
  THEN Returned([isLoading |-> TRUE, isAuthenticated |-> FALSE, user |-> <<>>,
                 idToken |-> 0, accessToken |-> 0, keycloak |-> 0])
  ELSE Returned(context[1])

\* useAuth(): context is what useContext(AuthContext) gives, <<>> for undefined
useAuth(context) ==
  IF context = <<>>
  THEN Thrown("Error", "useAuth must be used within a KeycloakAuthProvider")
  ELSE Returned(context[1])

\* useUser()
useUser(context) ==
  LET r == useAuth(context)
  IN IF r.threw THEN r ELSE Returned(r.value.user)

\* useKeycloak()
useKeycloak(context) ==
  LET r == useAuth(context)
  IN IF r.threw THEN r ELSE Returned(r.value.keycloak)

\* useConfig(): context is what useContext(ConfigContext) gives
useConfig(context) ==
  IF context = <<>>
  THEN Thrown("Error", "useConfig must be used within a ConfigProvider")
  ELSE Returned(context[1])

\* values a KeycloakAuthProvider can provide
AuthContextValues ==
  [isLoading : BOOLEAN, isAuthenticated : BOOLEAN,
   user : {<<>>,
           extractUser([idTokenParsed |-> <<IdClaims>>, tokenParsed |-> <<>>])},
   idToken : {0}, accessToken : {0}, keycloak : {0, 1}]

\* values a ConfigProvider can provide
ConfigContextValues ==
  [config : {<<>>, <<"config">>}, isLoading : BOOLEAN,
   error : {<<>>, <<"error">>}]

\* a component tree: each context provided or not
HookInputs ==
  [fn : {"hooks"},
   auth : {<<>>} \cup {<<v>> : v \in AuthContextValues},
   config : {<<>>} \cup {<<v>> : v \in ConfigContextValues}]

InitHooks == InitFunction(HookInputs)

UseAuthCall ==
  /\ output' = Applied("useAuth", useAuth(input.auth))
  /\ UNCHANGED fnFrame

UseUserCall ==
  /\ output' = Applied("useUser", useUser(input.auth))
  /\ UNCHANGED fnFrame

UseKeycloakCall ==
  /\ output' = Applied("useKeycloak", useKeycloak(input.auth))
  /\ UNCHANGED fnFrame

UseConfigCall ==
  /\ output' = Applied("useConfig", useConfig(input.config))
  /\ UNCHANGED fnFrame

NextHooks ==
  \/ UseAuthCall
  \/ UseUserCall
  \/ UseKeycloakCall
  \/ UseConfigCall

HookSpec == InitHooks /\ [][NextHooks]_vars

\* ---- validateLoginConfig applied to arbitrary values ----
\* values of type unknown: besides the JSON values above (an object's members
\* being values themselves), undefined, booleans, arrays and functions
JsUndefined == [kind |-> "undefined"]
JsBoolean(b) == [kind |-> "boolean", bool |-> b]
JsArray == [kind |-> "array"]
JsFunction == [kind |-> "function"]

\* typeof v
typeof(v) ==
  CASE v.kind = "undefined" -> "undefined"
    [] v.kind = "null" -> "object"
    [] v.kind = "boolean" -> "boolean"
    [] v.kind = "number" -> "number"
    [] v.kind = "string" -> "string"
    [] v.kind = "object" -> "object"
    [] v.kind = "array" -> "object"
    [] v.kind = "function" -> "function"

\* !v is false
Truthy(v) ==
  CASE v.kind \in {"undefined", "null"} -> FALSE
    [] v.kind = "boolean" -> v.bool
    [] v.kind = "number" -> v.digit # 0
    [] v.kind = "string" -> v.text # <<>>
    [] OTHER -> TRUE

\* v[name] of a value that is not null or undefined; an array has neither
\* realm, urls nor name, a function has a name
Member(v, name) ==
  CASE v.kind = "object" /\ name \in DOMAIN v.members -> v.members[name]
    [] v.kind = "function" /\ name = "name" -> JsonString(Str(<<"f">>))
    [] OTHER -> JsUndefined

LoginConfigError(message) == Thrown("LoginConfigError", message)

\* a validation that tests only typeof config: reading null.realm throws
validateLoginConfigNoNullCheck(config) ==
  IF typeof(config) # "object"
  THEN LoginConfigError("Login configuration must be an object")
  ELSE IF config.kind = "null"
  THEN Thrown("TypeError", "Cannot read properties of null")
  ELSE LET realm == Member(config, "realm")
           urls == Member(config, "urls")
       IN IF ~Truthy(realm) \/ typeof(realm) # "object"
          THEN LoginConfigError(
                 "Login configuration must have a 'realm' object")
          ELSE IF ~Truthy(urls) \/ typeof(urls) # "object"
          THEN LoginConfigError(
                 "Login configuration must have a 'urls' object")
          ELSE IF typeof(Member(realm, "name")) # "string"
          THEN LoginConfigError(
                 "Realm configuration must have a 'name' string")
          ELSE Returned(TRUE)

\* validateLoginConfig(config)
validateLoginConfig(config) ==
  IF ~Truthy(config) \/ typeof(config) # "object"
  THEN LoginConfigError("Login configuration must be an object")
  ELSE LET realm == Member(config, "realm")
           urls == Member(config, "urls")
       IN IF ~Truthy(realm) \/ typeof(realm) # "object"
          THEN LoginConfigError(
                 "Login configuration must have a 'realm' object")
          ELSE IF ~Truthy(urls) \/ typeof(urls) # "object"
          THEN LoginConfigError(
                 "Login configuration must have a 'urls' object")
          ELSE IF typeof(Member(realm, "name")) # "string"
          THEN LoginConfigError(
                 "Realm configuration must have a 'name' string")
          ELSE Returned(TRUE)

\* values that are no objects with members
PlainValues ==
  { JsUndefined, Null, JsBoolean(FALSE), JsBoolean(TRUE), JsonNumber(0),
    JsonNumber(1), JsonString(<<>>), JsonString(Str(<<"s">>)), JsArray,
    JsFunction }

\* an object with the members given: each of a and b is <<>> (no such
\* member) or <<value>>
ObjectOf(nameA, a, nameB, b) ==
  JsonObject([n \in (IF a = <<>> THEN {} ELSE {nameA})
                    \cup (IF b = <<>> THEN {} ELSE {nameB}) |->
                IF n = nameA THEN a[1] ELSE b[1]])

RealmValues ==
  PlainValues \cup
    { ObjectOf("name", name, "displayName", displayName) :
        name \in {<<>>, <<JsonString(<<>>)>>, <<JsonString(Str(<<"t">>))>>,
                  <<JsonNumber(1)>>, <<Null>>, <<JsArray>>},
        displayName \in {<<>>, <<JsonString(Str(<<"T">>))>>} }

UrlsValues ==
  PlainValues \cup
    { ObjectOf("login", login, "registration", <<>>) :
        login \in {<<>>, <<JsonString(Str(<<"/">>))>>} }

ConfigValues ==
  PlainValues \cup
    { ObjectOf("realm", realm, "urls", urls) :
        realm \in {<<>>} \cup {<<v>> : v \in RealmValues},
        urls \in {<<>>} \cup {<<v>> : v \in UrlsValues} }

ValidateInputs == [fn : {"config"}, config : ConfigValues]

InitValidate == InitFunction(ValidateInputs)

ValidateLoginConfigCall ==
  /\ output' = Applied("validateLoginConfig", validateLoginConfig(input.config))
  /\ UNCHANGED fnFrame

ValidateSpec == InitValidate /\ [][ValidateLoginConfigCall]_vars

\* ---- fetchLoginConfig (fetch.ts) ----
\* a promise: pending, resolved with a value or rejected with an error
Pending == [status |-> "pending"]
Resolved(v) == [status |-> "resolved", value |-> v]
Rejected(error) == [status |-> "rejected", error |-> error]

\* what fetch and response.json() reject with once the signal is aborted
AbortError == Thrown("AbortError", <<"The operation was aborted">>)
\* what fetch rejects with when the network fails
NetworkError == Thrown("TypeError", <<"Failed to fetch">>)

\* what fetch settles with while the signal is not aborted
FetchOutcomes ==
  { Rejected(NetworkError),
    Resolved([ok |-> TRUE, status |-> 200]),
    Resolved([ok |-> FALSE, status |-> 404]),
    Resolved([ok |-> FALSE, status |-> 500]) }

\* bodies that are JSON: null, a number, an array, objects without a realm,
\* without urls, with a nameless realm, and two complete configurations
BodyValues ==
  { Null, JsonNumber(1), JsArray,
    ObjectOf("realm", <<>>, "urls", <<JsonObject(<<>>)>>),
    ObjectOf("realm", <<ObjectOf("name", <<JsonString(Str(<<"t">>))>>,
                                 "displayName", <<>>)>>,
             "urls", <<>>),
    ObjectOf("realm", <<JsonObject(<<>>)>>, "urls", <<JsonObject(<<>>)>>),
    ObjectOf("realm", <<ObjectOf("name", <<JsonString(Str(<<"t">>))>>,
                                 "displayName", <<>>)>>,
             "urls", <<JsonObject(<<>>)>>),
    ObjectOf("realm",
             <<ObjectOf("name", <<JsonString(<<>>)>>,
                        "displayName", <<JsonString(Str(<<"T">>))>>)>>,
             "urls", <<JsArray>>) }

\* what response.json() settles with while the signal is not aborted
JsonOutcomes ==
  {Rejected(Thrown("SyntaxError", <<"Unexpected token">>))}
    \cup {Resolved(data) : data \in BodyValues}

\* a call of fetchLoginConfig that has just sent its request; signal tells
\* whether options.signal was given
NewFetch(signal) ==
  [signal |-> signal, aborted |-> FALSE, pc |-> "fetch", cause |-> "none",
   result |-> Pending]

\* the call i settles: cause records what made it fail
Settle(i, cause, result) ==
  fetchCalls' = [fetchCalls EXCEPT ![i] =
                   [@ EXCEPT !.pc = "done", !.cause = cause,
                             !.result = result]]

fetchFrame == <<provVars, clients, events, lastEvent, logVars, tokVars,
                uiVars, input, output, configProvider, form, registerCalls>>

\* fetchLoginConfig(options) up to its first await
FetchLoginConfigCall(signal) ==
  /\ Len(fetchCalls) < MaxFetches
  /\ fetchCalls' = Append(fetchCalls, NewFetch(signal))
  /\ UNCHANGED fetchFrame

\* the caller aborts the controller of options.signal
AbortSignal(i) ==
  /\ i \in DOMAIN fetchCalls
  /\ fetchCalls[i].signal
  /\ ~fetchCalls[i].aborted
  /\ fetchCalls' = [fetchCalls EXCEPT ![i].aborted = TRUE]
  /\ UNCHANGED fetchFrame

\* the fetch promise settles and the function runs on to response.json()
FetchSettles(i, outcome) ==
  /\ i \in DOMAIN fetchCalls
  /\ fetchCalls[i].pc = "fetch"
  /\ outcome = IF fetchCalls[i].aborted THEN Rejected(AbortError) ELSE outcome
  /\ IF outcome.status = "rejected"
     THEN IF outcome.error.name = "AbortError"
          THEN Settle(i, "abort", Rejected(outcome.error))
          ELSE Settle(i, "network",
                      Rejected(LoginConfigError(
                        <<"Failed to fetch login configuration: ">>
                          \o outcome.error.message)))
     ELSE IF ~outcome.value.ok
     THEN Settle(i, "status",
                 Rejected(LoginConfigError(
                   <<"Failed to fetch login configuration: ",
                     outcome.value.status>>)))
     ELSE fetchCalls' = [fetchCalls EXCEPT ![i].pc = "json"]
  /\ UNCHANGED fetchFrame

\* the response.json() promise settles and the function runs to its end
JsonSettles(i, outcome) ==
  /\ i \in DOMAIN fetchCalls
  /\ fetchCalls[i].pc = "json"
  /\ outcome = IF fetchCalls[i].aborted THEN Rejected(AbortError) ELSE outcome
  /\ IF outcome.status = "rejected"
     THEN Settle(i, IF fetchCalls[i].aborted THEN "abort" ELSE "body",
                 Rejected(LoginConfigError(
                   <<"Failed to parse login configuration: ",
                     "Invalid JSON response">>)))
     ELSE LET r == validateLoginConfig(outcome.value)
          IN IF r.threw
             THEN Settle(i, "structure",
                         Rejected(LoginConfigError(
                           <<"Invalid login configuration received: ",
                             r.message>>)))
             ELSE Settle(i, "none", Resolved(outcome.value))
  /\ UNCHANGED fetchFrame

NextFetch ==
  \/ \E signal \in BOOLEAN : FetchLoginConfigCall(signal)
  \/ \E i \in 1..MaxFetches : AbortSignal(i)
  \/ \E i \in 1..MaxFetches :
       \E outcome \in FetchOutcomes \cup {Rejected(AbortError)} :
         FetchSettles(i, outcome)
  \/ \E i \in 1..MaxFetches :
       \E outcome \in JsonOutcomes \cup {Rejected(AbortError)} :
         JsonSettles(i, outcome)

FetchSpec == Init /\ [][NextFetch]_vars

\* ---- ConfigProvider ----
DEFAULT_CONFIG_ELEMENT_ID == "keycloak-login-config"

\* the configuration a config prop carries, and the one the document holds
PropConfig ==
  ObjectOf("realm", <<ObjectOf("name", <<JsonString(Str(<<"p">>))>>,
                               "displayName", <<>>)>>,
           "urls", <<JsonObject(<<>>)>>)
DomConfig ==
  ObjectOf("realm", <<ObjectOf("name", <<JsonString(Str(<<"d">>))>>,
                               "displayName", <<>>)>>,
           "urls", <<JsonObject(<<>>)>>)

\* the script element looked up in the document: none, or one whose text is
\* blank or not, and what JSON.parse makes of the text
Elements ==
  {<<>>, <<[blank |-> TRUE, parsed |-> Threw]>>,
   <<[blank |-> FALSE, parsed |-> Threw]>>}
    \cup {<<[blank |-> FALSE, parsed |-> Returned(v)]>> :
            v \in {DomConfig, JsonNumber(1)}}

\* getLoginConfigFromDOM(elementId), element being
\* document.getElementById(elementId)
getLoginConfigFromDOM(element, elementId) ==
  IF element = <<>>
  THEN LoginConfigError(<<"Login configuration element with id ", elementId,
                          " not found in DOM">>)
  ELSE IF element[1].blank
  THEN LoginConfigError(<<"Login configuration element ", elementId,
                          " is empty">>)
  ELSE IF element[1].parsed.threw
  THEN LoginConfigError(<<"Failed to parse login configuration: ",
                          "Invalid JSON">>)
  ELSE element[1].parsed

\* the props a ConfigProvider is rendered with
ConfigProps ==
  [config : {<<>>, <<PropConfig>>},
   keycloakUrl : {<<>>, <<"">>, <<"https://kc">>},
   realm : {<<>>, <<"r1">>, <<"r2">>},
   configElementId : {<<>>, <<"el">>}]

\* a string prop that is given and not empty
StringGiven(prop) == prop # <<>> /\ prop[1] # ""

\* the effect's cleanup: abort the controller of the fetch it started
ConfigCleanup(cp, calls) ==
  IF cp.fetch # 0 THEN [calls EXCEPT ![cp.fetch].aborted = TRUE] ELSE calls

\* an effect that looks at keycloakUrl and realm before the config prop
ConfigEffectFetchFirst(cp, calls, element) ==
  LET props == cp.props
  IN IF StringGiven(props.keycloakUrl) /\ StringGiven(props.realm)
     THEN [cp |-> [cp EXCEPT !.isLoading = TRUE, !.error = <<>>,
                             !.fetch = Len(calls) + 1, !.source = "fetch"],
           calls |-> Append(calls, NewFetch(TRUE))]
     ELSE IF props.config # <<>>
     THEN [cp |-> [cp EXCEPT !.config = props.config, !.isLoading = FALSE,
                             !.fetch = 0, !.source = "prop"],
           calls |-> calls]
     ELSE LET r == getLoginConfigFromDOM(
                     element,
                     IF props.configElementId = <<>>
                     THEN DEFAULT_CONFIG_ELEMENT_ID
                     ELSE props.configElementId[1])
          IN [cp |-> [cp EXCEPT
                        !.config = IF r.threw THEN @ ELSE <<r.value>>,
                        !.error = IF r.threw THEN <<r>> ELSE <<>>,
                        !.isLoading = FALSE, !.fetch = 0,
                        !.domReads = @ + 1, !.source = "dom"],
              calls |-> calls]

\* the body of useEffect for the props of cp: the provider and the fetch
\* calls after it ran
ConfigEffect(cp, calls, element) ==
  LET props == cp.props
  IN IF props.config # <<>>
     THEN [cp |-> [cp EXCEPT !.config = props.config, !.isLoading = FALSE,
                             !.fetch = 0, !.source = "prop"],
           calls |-> calls]
     ELSE IF StringGiven(props.keycloakUrl) /\ StringGiven(props.realm)
     THEN [cp |-> [cp EXCEPT !.isLoading = TRUE, !.error = <<>>,
                             !.fetch = Len(calls) + 1, !.source = "fetch"],
           calls |-> Append(calls, NewFetch(TRUE))]
     ELSE LET r == getLoginConfigFromDOM(
                     element,
                     IF props.configElementId = <<>>
                     THEN DEFAULT_CONFIG_ELEMENT_ID
                     ELSE props.configElementId[1])
          IN [cp |-> [cp EXCEPT
                        !.config = IF r.threw THEN @ ELSE <<r.value>>,
                        !.error = IF r.threw THEN <<r>> ELSE <<>>,
                        !.isLoading = FALSE, !.fetch = 0,
                        !.domReads = @ + 1, !.source = "dom"],
              calls |-> calls]

\* every settled fetchLoginConfig call has had its then/catch/finally
\* callbacks run: promise callbacks run before any other task
HandlersIdle ==
  \A i \in DOMAIN fetchCalls :
    fetchCalls[i].pc = "done" => i \in configProvider.handled

configFrame == <<provVars, clients, events, lastEvent, logVars, tokVars,
                 uiVars, input, output, form, registerCalls>>

\* the first render of a ConfigProvider and its effect
ConfigMount(props, element) ==
  /\ configProvider = NoConfigProvider
  /\ LET after == ConfigEffect(
                    [configProvider EXCEPT
                       !.mounted = TRUE, !.props = props,
                       !.config = props.config,
                       !.isLoading = (props.config = <<>>)],
                    fetchCalls, element)
     IN /\ Len(after.calls) <= MaxFetches
        /\ configProvider' = after.cp
        /\ fetchCalls' = after.calls
  /\ UNCHANGED configFrame

\* a render with other props: the cleanup of the last effect, then the effect
ConfigRerender(props, element) ==
  /\ configProvider.mounted
  /\ HandlersIdle
  /\ configProvider.renders < MaxConfigRenders
  /\ props # configProvider.props
  /\ LET after == ConfigEffect(
                    [configProvider EXCEPT !.props = props,
                                           !.renders = @ + 1],
                    ConfigCleanup(configProvider, fetchCalls), element)
     IN /\ Len(after.calls) <= MaxFetches
        /\ configProvider' = after.cp
        /\ fetchCalls' = after.calls
  /\ UNCHANGED configFrame

\* the provider unmounts: the cleanup of the last effect
ConfigUnmount ==
  /\ configProvider.mounted
  /\ HandlersIdle
  /\ configProvider' = [configProvider EXCEPT !.mounted = FALSE, !.fetch = 0]
  /\ fetchCalls' = ConfigCleanup(configProvider, fetchCalls)
  /\ UNCHANGED configFrame

\* the then, catch and finally callbacks of the call i, once it has settled;
\* state setters of an unmounted component do nothing
ConfigFetchHandlers(i) ==
  /\ i \in DOMAIN fetchCalls
  /\ fetchCalls[i].pc = "done"
  /\ i \notin configProvider.handled
  /\ LET result == fetchCalls[i].result
         cp == [configProvider EXCEPT !.handled = @ \cup {i}]
     IN configProvider' =
          IF ~cp.mounted THEN cp
          ELSE IF result.status = "resolved"
          THEN [cp EXCEPT !.config = <<result.value>>, !.error = <<>>,
                          !.isLoading = FALSE]
          ELSE IF result.error.name = "AbortError"
          THEN [cp EXCEPT !.isLoading = FALSE]
          ELSE [cp EXCEPT
                  !.error =
                    IF result.error.name = "LoginConfigError"
                    THEN <<result.error>>
                    ELSE <<Thrown("Error",
                                  <<"Failed to fetch login configuration">>)>>,
                  !.isLoading = FALSE]
  /\ UNCHANGED <<configFrame, fetchCalls>>

NextConfig ==
  \/ \E props \in ConfigProps, element \in Elements :
       ConfigMount(props, element)
  \/ \E props \in ConfigProps, element \in Elements :
       ConfigRerender(props, element)
  \/ ConfigUnmount
  \/ \E i \in 1..MaxFetches :
       \E outcome \in FetchOutcomes \cup {Rejected(AbortError)} :
         HandlersIdle /\ FetchSettles(i, outcome)
  \/ \E i \in 1..MaxFetches :
       \E outcome \in JsonOutcomes \cup {Rejected(AbortError)} :
         HandlersIdle /\ JsonSettles(i, outcome)
  \/ \E i \in 1..MaxFetches : ConfigFetchHandlers(i)

ConfigSpec == Init /\ [][NextConfig]_vars

\* ---- useSignIn ----
\* what a user can type into the username and password fields
Usernames == {"", " ", "u", " u "}
Passwords == {"", "p"}

\* String.prototype.trim on the usernames
trim(s) ==
  CASE s = " " -> ""
    [] s = " u " -> "u"
    [] OTHER -> s

\* options.validate: absent, or a function that returns null, an object with
\* a general error, or an empty object
Validators == {"none", "null", "general", "empty"}

\* options.validate(data): <<>> for null, else <<errors>>
CustomErrors(validator, data) ==
  CASE validator = "null" -> <<>>
    [] validator = "general" -> <<[general |-> "Rejected"]>>
    [] validator = "empty" -> << <<>> >>

\* the options of the hook; loginUrl is computed.loginUrl of its config
SignInOptions ==
  [initialUsername : {<<>>, <<"u">>}, validate : Validators,
   loginUrl : {"/login"}]

\* how a handler settles: it resolves, rejects with an Error or rejects with
\* a string, which is no Error
HandlerOutcomes ==
  { Resolved(Undefined), Rejected(Thrown("Error", "Bad credentials")),
    Rejected(JsonString(Str(<<"x">>))) }

\* err instanceof Error
IsError(err) == "threw" \in DOMAIN err

\* getFormData()
getFormData(f) ==
  [username |-> f.username, password |-> f.password,
   rememberMe |-> f.rememberMe]

\* a validation that runs the default checks only
validateDefaultOnly(f) ==
  LET data == getFormData(f)
      newErrors ==
        [n \in (IF trim(data.username) = "" THEN {"username"} ELSE {})
               \cup (IF data.password = "" THEN {"password"} ELSE {}) |->
           IF n = "username" THEN "Username is required"
           ELSE "Password is required"]
  IN IF DOMAIN newErrors # {}
     THEN [valid |-> FALSE, errors |-> newErrors]
     ELSE [valid |-> TRUE, errors |-> f.errors]

\* validate(): whether the form is valid, and the errors state afterwards
validate(f) ==
  LET data == getFormData(f)
      customErrors ==
        IF f.options.validate = "none" THEN <<>>
        ELSE CustomErrors(f.options.validate, data)
      newErrors ==
        [n \in (IF trim(data.username) = "" THEN {"username"} ELSE {})
               \cup (IF data.password = "" THEN {"password"} ELSE {}) |->
           IF n = "username" THEN "Username is required"
           ELSE "Password is required"]
  IN IF customErrors # <<>>
     THEN [valid |-> FALSE, errors |-> customErrors[1]]
     ELSE IF DOMAIN newErrors # {}
     THEN [valid |-> FALSE, errors |-> newErrors]
     ELSE [valid |-> TRUE, errors |-> f.errors]

formFrame == <<provVars, clients, events, lastEvent, logVars, tokVars,
               uiVars, input, output, fetchCalls, configProvider,
               registerCalls>>

\* the first render of a component that calls useSignIn(options)
UseSignIn(options) ==
  /\ ~form.mounted
  /\ form' =
       [mounted |-> TRUE, options |-> options,
        username |-> IF options.initialUsername = <<>> THEN ""
                     ELSE options.initialUsername[1],
        password |-> "", rememberMe |-> FALSE, isSubmitting |-> FALSE,
        errors |-> <<>>, helperText |-> "", showHelperText |-> FALSE,
        submits |-> 0, handlerCalls |-> <<>>, posts |-> <<>>,
        onSuccessCalls |-> 0, onErrorCalls |-> <<>>]
  /\ UNCHANGED formFrame

\* actions.setUsername(value)
SetUsername(v) ==
  /\ form.mounted
  /\ form' = [form EXCEPT !.username = v]
  /\ UNCHANGED formFrame

\* actions.setPassword(value)
SetPassword(v) ==
  /\ form.mounted
  /\ form' = [form EXCEPT !.password = v]
  /\ UNCHANGED formFrame

\* actions.setRememberMe(value)
SetRememberMe(v) ==
  /\ form.mounted
  /\ form' = [form EXCEPT !.rememberMe = v]
  /\ UNCHANGED formFrame

\* actions.reset()
ResetForm ==
  /\ form.mounted
  /\ form' = [form EXCEPT
                !.username = IF form.options.initialUsername = <<>> THEN ""
                             ELSE form.options.initialUsername[1],
                !.password = "", !.rememberMe = FALSE,
                !.isSubmitting = FALSE, !.errors = <<>>,
                !.helperText = "", !.showHelperText = FALSE]
  /\ UNCHANGED formFrame

\* submit.submit(handler) up to its await; withHandler tells whether a
\* handler was passed. Without one the form is posted and the finally block
\* runs at once.
Submit(withHandler) ==
  /\ form.mounted
  /\ form.submits < MaxSubmits
  /\ LET cleared == [form EXCEPT !.errors = <<>>, !.helperText = "",
                                 !.showHelperText = FALSE,
                                 !.submits = @ + 1]
         checked == validate(cleared)
         data == getFormData(cleared)
     IN form' =
          IF ~checked.valid
          THEN [cleared EXCEPT !.errors = checked.errors]
          ELSE IF withHandler
          THEN [cleared EXCEPT
                  !.isSubmitting = TRUE,
                  !.handlerCalls =
                    Append(@, [data |-> data, result |-> Pending])]
          ELSE [cleared EXCEPT
                  !.isSubmitting = FALSE,
                  !.posts = Append(@, [action |-> form.options.loginUrl,
                                       username |-> data.username,
                                       password |-> data.password,
                                       rememberMe |->
                                         IF data.rememberMe THEN <<"on">>
                                         ELSE <<>>])]
  /\ UNCHANGED formFrame

\* the promise of the handler call i settles: the rest of the try block, the
\* catch block and the finally block of that submit
HandlerSettles(i, outcome) ==
  /\ form.mounted
  /\ i \in DOMAIN form.handlerCalls
  /\ form.handlerCalls[i].result = Pending
  /\ LET settled == [form EXCEPT !.handlerCalls[i].result = outcome,
                                 !.isSubmitting = FALSE]
     IN form' =
          IF outcome.status = "resolved"
          THEN [settled EXCEPT !.onSuccessCalls = @ + 1]
          ELSE LET error == IF IsError(outcome.error) THEN outcome.error
                            ELSE Thrown("Error", "Sign in failed")
               IN [settled EXCEPT !.helperText = error.message,
                                  !.showHelperText = TRUE,
                                  !.onErrorCalls = Append(@, error)]
  /\ UNCHANGED formFrame

NextSignIn ==
  \/ \E options \in SignInOptions : UseSignIn(options)
  \/ \E v \in Usernames : SetUsername(v)
  \/ \E v \in Passwords : SetPassword(v)
  \/ \E v \in BOOLEAN : SetRememberMe(v)
  \/ ResetForm
  \/ \E withHandler \in BOOLEAN : Submit(withHandler)
  \/ \E i \in 1..MaxSubmits :
       \E outcome \in HandlerOutcomes : HandlerSettles(i, outcome)

SignInSpec == Init /\ [][NextSignIn]_vars

\* ---- signIn and signUp as consumers call them ----
\* the redirectUri option: absent, empty or a URL
RedirectUris == {Undefined, "", "/app"}

\* signUp(options) of the context value a consumer holds: the register calls
\* it leaves behind
signUp(redirectUri) ==
  IF value.keycloak = 0 THEN registerCalls
  ELSE Append(registerCalls, <<value.keycloak, LoginRedirect(redirectUri)>>)

redirectFrame == <<provVars, clients, events, logVars, tokVars, protect,
                   signedIn, signedOut, input, output, fetchCalls,
                   configProvider, form>>

\* a consumer calls signIn({redirectUri})
SignInCall(redirectUri) ==
  /\ mounted
  /\ CallSignIn(redirectUri)
  /\ lastEvent' = Event("signIn", value.keycloak, redirectUri)
  /\ UNCHANGED <<redirectFrame, registerCalls>>

\* a consumer calls signUp({redirectUri})
SignUpCall(redirectUri) ==
  /\ mounted
  /\ Len(registerCalls) < MaxLoginCalls
  /\ registerCalls' = signUp(redirectUri)
  /\ lastEvent' = Event("signUp", value.keycloak, redirectUri)
  /\ UNCHANGED <<redirectFrame, loginCalls, signInCalls>>

\* the effect of <RedirectToSignIn returnUrl=...>
RedirectToSignIn(returnUrl) ==
  /\ mounted
  /\ IF ~value.isLoading /\ ~value.isAuthenticated
     THEN CallSignIn(returnUrl)
     ELSE UNCHANGED <<loginCalls, signInCalls>>
  /\ lastEvent' = Event("redirectToSignIn", value.keycloak, returnUrl)
  /\ UNCHANGED <<redirectFrame, registerCalls>>

NextRedirects ==
  \/ \E redirectUri \in RedirectUris : SignInCall(redirectUri)
  \/ \E redirectUri \in RedirectUris : SignUpCall(redirectUri)
  \/ \E returnUrl \in RedirectUris : RedirectToSignIn(returnUrl)
  \/ \E props \in {p \in ProtectProps : p.roles = <<>> /\ p.realmRoles = <<>>} :
       ProtectRender(props)
  \/ ProtectTrigger

RedirectSpec == InitConsumers /\ [][NextRedirects]_vars

\* ---- properties ----

\* the step in which the init promise of client k settles
InitResolves(k) == clients[k].init = "pending" /\ clients'[k].init = "resolved"
InitRejects(k) == clients[k].init = "pending" /\ clients'[k].init = "rejected"

\* C1: one provider instance calls the client's init exactly once, however
\* often its setup effect runs and however those runs interleave with the
\* settling of the first init. Every client the effect constructs gets one
\* init call, so the init calls are as many as the clients.
C1_InitCalledOnce == Len(clients) <= 1

\* C2: a token-expiry event on an authenticated session publishes
\* isAuthenticated=false and user=null, notifies onAuthStateChange(false,
\* null) and onTokenExpired, and calls updateToken never.
C2_ExpiryEndsSession ==
  [][ (lastEvent'.type = "tokenExpired" /\ mounted /\ isAuthenticated)
      => /\ ~isAuthenticated' /\ user' = <<>>
         /\ ~value'.isAuthenticated /\ value'.user = <<>>
         /\ notifyLog' = Append(notifyLog, <<FALSE, <<>>>>)
         /\ expiredCalls' = expiredCalls + 1
         /\ updateTokenCalls' = updateTokenCalls
         /\ getTokenPending' = getTokenPending ]_vars

\* an authenticated session (its last notification said so) was ended by
\* the expiry event
C2_Witness ==
  /\ lastEvent.type = "tokenExpired"
  /\ mounted
  /\ ~value.isAuthenticated
  /\ Len(notifyLog) >= 2
  /\ notifyLog[Len(notifyLog) - 1][1] = TRUE
  /\ expiredCalls = 1

\* C3: once the provider is unmounted its handlers are detached: no client
\* event and no init completion changes the snapshot or invokes
\* onAuthStateChange, onTokenExpired or onError.
C3_DetachedAfterUnmount ==
  [][ ~mounted => /\ value' = value
                  /\ notifyLog' = notifyLog
                  /\ expiredCalls' = expiredCalls
                  /\ errorLog' = errorLog ]_vars

\* C4: when the client's init rejects, the snapshot then has isLoading=false,
\* isAuthenticated=false and user=null, and onError is invoked once with the
\* failure, wrapped in an Error when it is not one.
C4_InitFailureUnauthenticated ==
  [][ \A k \in ClientIds :
        (InitRejects(k) /\ mounted)
        => /\ ~value'.isLoading
           /\ ~value'.isAuthenticated
           /\ value'.user = <<>>
           /\ LET e == clients'[k].rejection[1]
              IN errorLog' = Append(errorLog,
                   IF e.isError THEN e
                   ELSE [isError |-> TRUE, message |-> e.message]) ]_vars

\* C5: an init failure is terminal: after the client's init has rejected, the
\* provider constructs no further client and calls init no more.
C5_NoRetryAfterFailure ==
  [][ (\E k \in ClientIds : clients[k].init = "rejected")
      => Len(clients') = Len(clients) ]_vars

\* C6: the snapshot starts loading; the snapshot published when init
\* resolves with b has isLoading=false, isAuthenticated=b, and as user the
\* projection of the client's parsed token if b, null otherwise.
C6_InitCompletionSnapshot ==
  /\ value.isLoading
  /\ [][ \A k \in ClientIds :
           (InitResolves(k) /\ mounted)
           => LET b == (lastEvent'.detail = "true")
              IN /\ ~value'.isLoading
                 /\ value'.isAuthenticated = b
                 /\ value'.user = (IF b THEN extractUser(clients'[k]) ELSE <<>>)
                 /\ value'.keycloak = k ]_vars

\* init resolved with true and a user was projected from the parsed token
C6_Witness ==
  /\ lastEvent.type = "initResolved"
  /\ lastEvent.detail = "true"
  /\ mounted
  /\ ~value.isLoading
  /\ value.isAuthenticated
  /\ value.user # <<>>

\* C7: every session transition (init completion, login success, logout,
\* expiry) invokes onAuthStateChange exactly once, with the isAuthenticated
\* and user of the snapshot published for it, and no transition is notified
\* twice: a notification never repeats the one before it, in particular not
\* when a login success during initialisation is followed by the init
\* completion.
C7_NotifiedOncePerTransition ==
  [][ /\ (mounted /\ lastEvent'.type \in {"initResolved", "authSuccess",
                                           "authLogout", "tokenExpired"})
         => notifyLog' = Append(notifyLog, <<value'.isAuthenticated, value'.user>>)
      /\ (Len(notifyLog') > Len(notifyLog) /\ notifyLog # <<>>)
         => notifyLog'[Len(notifyLog')] # notifyLog[Len(notifyLog)] ]_vars

\* C8: getToken never rejects. With a client it calls updateToken(30) and
\* resolves to the client's token when that succeeds, to undefined when the
\* refresh fails; without a client it resolves to undefined and calls
\* updateToken not at all.
C8_GetTokenNeverRejects ==
  /\ getTokenResult.status # "rejected"
  /\ [][ /\ getTokenResult'.status # "rejected"
         /\ lastEvent'.type = "getToken"
            => IF keycloak = 0
               THEN /\ getTokenResult' = [status |-> "resolved", value |-> 0]
                    /\ updateTokenCalls' = updateTokenCalls
               ELSE updateTokenCalls' = Append(updateTokenCalls, <<keycloak, 30>>)
         /\ lastEvent'.type = "getTokenSettled"
            => /\ getTokenResult'.status = "resolved"
               /\ getTokenResult'.value =
                    (IF lastEvent'.detail = "failed" THEN 0
                     ELSE clients'[getTokenPending].token)
               /\ updateTokenCalls' = updateTokenCalls ]_vars

\* a refresh failed and getToken resolved to undefined
C8_Witness ==
  /\ lastEvent.type = "getTokenSettled"
  /\ lastEvent.detail = "failed"
  /\ getTokenResult = [status |-> "resolved", value |-> 0]
  /\ Len(updateTokenCalls) >= 1

\* C9: in every snapshot a consumer can read, user is non-null only if
\* isAuthenticated is true.
C9_UserOnlyWhenAuthenticated ==
  /\ value.user # <<>> => value.isAuthenticated
  /\ user # <<>> => isAuthenticated

\* a session that had a user was ended by a logout and the user is gone
C9_Witness ==
  /\ lastEvent.type = "authLogout"
  /\ mounted
  /\ Len(notifyLog) >= 2
  /\ notifyLog[Len(notifyLog) - 1][2] # <<>>
  /\ ~value.isAuthenticated
  /\ value.user = <<>>

\* the roles the client behind the context value reports; without a client
\* handle nothing is reported
ReportedResourceRoles ==
  IF value.keycloak = 0 THEN {} ELSE clients[value.keycloak].resourceRoles
ReportedRealmRoles ==
  IF value.keycloak = 0 THEN {} ELSE clients[value.keycloak].realmRoles

\* a required set is satisfied: absent, empty, or one of its roles is held
RequirementMet(required, held) ==
  required = <<>> \/ required[1] = {} \/ required[1] \cap held # {}

\* C10: for an authenticated, non-loading snapshot Protect shows its
\* children iff the client reports one of the required resource roles and
\* one of the required realm roles (an absent or empty set requires
\* nothing).
C10_RoleGate ==
  (lastEvent.type = "protect" /\ ~value.isLoading /\ value.isAuthenticated)
  => (protect.out = "children"
      <=> /\ RequirementMet(protect.props.roles, ReportedResourceRoles)
          /\ RequirementMet(protect.props.realmRoles, ReportedRealmRoles))

\* C11: a Protect element with a non-empty roles or realmRoles requirement
\* never shows its children when the context value carries no client handle
\* (keycloak = null): every required role counts as not held, also when the
\* value says isAuthenticated = true.
C11_NoHandleHidesChildren ==
  (/\ lastEvent.type = "protect"
   /\ value.keycloak = 0
   /\ \/ (protect.props.roles # <<>> /\ protect.props.roles[1] # {})
      \/ (protect.props.realmRoles # <<>> /\ protect.props.realmRoles[1] # {}))
  => protect.out # "children"

\* C12: Protect never renders its children for a loading or unauthenticated
\* context value. While loading it renders only the optional loading content
\* and does not call signIn. Not loading and unauthenticated, it renders the
\* static fallback if one is supplied, else the result of the fallback
\* function (whose trigger calls signIn when activated), else it calls
\* signIn while rendering and renders nothing.
C12_ProtectFallbackOrder ==
  [][/\ lastEvent'.type = "protect" =>
         LET p == protect'.props
             out == protect'.out
             callsSignIn == signInCalls' = Append(signInCalls, Undefined)
             quiet == signInCalls' = signInCalls
         IN /\ (value.isLoading \/ ~value.isAuthenticated) => out # "children"
            /\ value.isLoading =>
                 /\ out = IF p.loading THEN "loading" ELSE "null"
                 /\ quiet
            /\ (~value.isLoading /\ ~value.isAuthenticated) =>
                 CASE p.fallback = "node" -> out = "fallback" /\ quiet
                   [] p.fallback = "function" -> out = "fallbackFn" /\ quiet
                   [] OTHER -> out = "null" /\ callsSignIn
     /\ lastEvent'.type = "protectTrigger" =>
         /\ protect.props.fallback = "function"
         /\ signInCalls' = Append(signInCalls, Undefined)]_vars

\* an unauthenticated, settled value and a Protect without fallback: the
\* render called signIn and showed nothing
C12_Witness ==
  /\ lastEvent.type = "protect"
  /\ ~value.isLoading
  /\ ~value.isAuthenticated
  /\ protect.props.fallback = Undefined
  /\ protect.out = "null"
  /\ signInCalls = <<Undefined>>

\* C13: SignedIn renders its children exactly when the value is not loading
\* and authenticated, SignedOut exactly when it is not loading and not
\* authenticated; so for one value they never both show children, exactly one
\* does when not loading, and while loading each renders its fallback or
\* nothing.
C13_SignedInOutPartition ==
  /\ signedIn.out # "none" =>
       /\ signedIn.out = "children"
            <=> (~value.isLoading /\ value.isAuthenticated)
       /\ value.isLoading => signedIn.out \in {"fallback", "null"}
       /\ signedIn.out = "fallback" => signedIn.fallback # Undefined
  /\ signedOut.out # "none" =>
       /\ signedOut.out = "children"
            <=> (~value.isLoading /\ ~value.isAuthenticated)
       /\ value.isLoading => signedOut.out \in {"fallback", "null"}
       /\ signedOut.out = "fallback" => signedOut.fallback # Undefined
  /\ (signedIn.out # "none" /\ signedOut.out # "none") =>
       /\ ~(signedIn.out = "children" /\ signedOut.out = "children")
       /\ ~value.isLoading =>
            (signedIn.out = "children" \/ signedOut.out = "children")

\* both gates rendered for a settled, authenticated value: only SignedIn
\* shows its children
C13_Witness ==
  /\ ~value.isLoading
  /\ value.isAuthenticated
  /\ signedIn.out = "children"
  /\ signedOut.out = "null"

\* the characters of base64url (RFC 4648, section 5)
Base64UrlChars == (Base64Chars \ {"+", "/"}) \cup {"-", "_"}

\* seg is body \o padding: the body drawn from the given characters and not
\* 1 modulo 4 long, the padding absent or completing a multiple of four
IsPaddedRun(seg, chars) ==
  \E n \in 0..Len(seg) :
    /\ \A i \in 1..n : seg[i] \in chars
    /\ \A i \in (n + 1)..Len(seg) : seg[i] = Base64Pad
    /\ Len(seg) - n <= 2
    /\ n < Len(seg) => Len(seg) % 4 = 0
    /\ n % 4 # 1

\* a valid base64url segment
IsBase64Url(seg) == IsPaddedRun(seg, Base64UrlChars)

\* a segment the decoder accepts: ASCII whitespace aside, base64 in the
\* url-safe or the standard alphabet
IsLenientBase64(seg) ==
  LET NotSpace(c) == c \notin AsciiWhitespace
  IN IsPaddedRun(SelectSeq(seg, NotSpace), Base64UrlChars \cup Base64Chars)

\* the octets of a middle segment, and the text they encode
SegmentOctets(seg) == atob(replace(replace(seg, "-", "+"), "_", "/"))
SegmentText(seg) == Utf8Decode(SegmentOctets(seg).value)

\* C14 as stated: decodeToken never throws and returns a decoded value or
\* null; it returns null when the token does not split into exactly three
\* segments and when the middle segment is not valid base64url, not valid
\* UTF-8 or not valid JSON.
C14_FailsClosedOnInvalidBase64Url ==
  output.fn = "decodeToken" =>
    LET parts == split(input.token, ".")
    IN /\ ~output.result.threw
       /\ output.result.value \in JsonValues
       /\ Len(parts) # 3 => output.result.value = Null
       /\ (Len(parts) = 3 /\ ~IsBase64Url(parts[2]))
            => output.result.value = Null
       /\ (Len(parts) = 3 /\ IsBase64Url(parts[2])
              /\ SegmentText(parts[2]).threw)
            => output.result.value = Null
       /\ (Len(parts) = 3 /\ IsBase64Url(parts[2])
              /\ ~SegmentText(parts[2]).threw
              /\ JsonParse(SegmentText(parts[2]).value).threw)
            => output.result.value = Null

\* C14 (amended): decodeToken never throws and returns a decoded value or
\* null; it returns null when the token does not split into exactly three
\* segments and when the middle segment is not base64 as the decoder accepts
\* it (either alphabet, optional padding, whitespace ignored), or its octets
\* are not valid UTF-8, or the text is not valid JSON.
C14_DecodeFailsClosed ==
  output.fn = "decodeToken" =>
    LET parts == split(input.token, ".")
    IN /\ ~output.result.threw
       /\ output.result.value \in JsonValues
       /\ Len(parts) # 3 => output.result.value = Null
       /\ (Len(parts) = 3 /\ ~IsLenientBase64(parts[2]))
            => output.result.value = Null
       /\ (Len(parts) = 3 /\ IsLenientBase64(parts[2])
              /\ SegmentText(parts[2]).threw)
            => output.result.value = Null
       /\ (Len(parts) = 3 /\ IsLenientBase64(parts[2])
              /\ ~SegmentText(parts[2]).threw
              /\ JsonParse(SegmentText(parts[2]).value).threw)
            => output.result.value = Null

\* decodeToken returned null for a three-segment token whose middle segment
\* is no base64 at all
C14_Witness ==
  /\ output.fn = "decodeToken"
  /\ Len(split(input.token, ".")) = 3
  /\ ~IsLenientBase64(split(input.token, ".")[2])
  /\ output.result = Returned(Null)

\* C15: a token built from a claim set c as header "." base64url(JSON(c))
\* "." signature decodes to c, whatever the header and the signature are,
\* and getUserFromToken returns what decodeToken returns.
C15_EncodeDecodeRoundTrip ==
  /\ (output.fn \in {"decodeToken", "getUserFromToken"}
        /\ input.claims # <<>>)
       => output.result = Returned(input.claims[1])
  /\ output.fn = "getUserFromToken"
       => output.result = decodeToken(input.token)

\* a claim set with a two-octet character, encoded with a url-safe "_",
\* came back from decodeToken
C15_Witness ==
  /\ output.fn = "decodeToken"
  /\ input.claims # <<>>
  /\ "name" \in DOMAIN input.claims[1].members
  /\ \E i \in 1..Len(input.token) : input.token[i] = "_"
  /\ output.result.value = input.claims[1]

\* the logical user fields: the prop, the token claim and the context user
\* field each is resolved from
FieldSources ==
  { [field |-> "imageUrl", claim |-> "picture", user |-> "imageUrl"],
    [field |-> "firstName", claim |-> "given_name", user |-> "firstName"],
    [field |-> "lastName", claim |-> "family_name", user |-> "lastName"],
    [field |-> "name", claim |-> "name", user |-> "name"],
    [field |-> "email", claim |-> "email", user |-> "email"] }

\* what the token prop decodes to
DecodedProp(token) ==
  IF token = <<>> THEN Null ELSE decodeToken(token[1]).value

\* the claim a decoded token carries under a name, if it is a claim set that
\* has it
CarriedClaim(decoded, name) ==
  IF decoded \in ClaimsObjects /\ name \in DOMAIN decoded.members
  THEN <<decoded.members[name]>>
  ELSE <<>>

\* C16: every field UserAvatar and UserButton resolve (image URL, first
\* name, last name, full name; UserButton also email) is the explicit prop if
\* one is supplied, else the token's claim if the token decodes and carries
\* it, else the auth-context user's value.
C16_FieldPrecedence ==
  output.fn \in {"UserAvatar", "UserButton"} =>
    /\ DOMAIN output.result =
         IF output.fn = "UserAvatar"
         THEN {"imageUrl", "firstName", "lastName", "name"}
         ELSE {"imageUrl", "firstName", "lastName", "name", "email"}
    /\ LET decoded == DecodedProp(input.props.token)
       IN \A src \in FieldSources :
         src.field \in DOMAIN output.result =>
           LET resolved == output.result[src.field]
               prop == input.props[src.field]
               claim == CarriedClaim(decoded, src.claim)
               fromContext ==
                 IF input.context = <<>> \/ input.context[1].user = <<>>
                 THEN <<>>
                 ELSE input.context[1].user[1][src.user]
           IN /\ prop # <<>> => resolved = prop
              /\ (prop = <<>> /\ claim # <<>>) => resolved = claim
              /\ (prop = <<>> /\ claim = <<>>) => resolved = fromContext

\* UserButton took the email from the token although the context user has
\* one, and an empty first-name prop won over the token's given_name
C16_Witness ==
  /\ output.fn = "UserButton"
  /\ input.props.email = <<>>
  /\ CarriedClaim(DecodedProp(input.props.token), "email") # <<>>
  /\ input.context # <<>>
  /\ input.context[1].user # <<>>
  /\ input.context[1].user[1].email # <<>>
  /\ output.result.email
       = CarriedClaim(DecodedProp(input.props.token), "email")
  /\ input.props.name = << <<>> >>
  /\ output.result.name = << <<>> >>

\* C17: the User projection is null when the client has neither parsed
\* token; otherwise it reads the parsed ID token if there is one, else the
\* parsed access token, and maps sub to id, email to email, email_verified to
\* emailVerified, name to name, given_name to firstName, family_name to
\* lastName, preferred_username to username, picture to imageUrl, keeping the
\* whole claim set under claims.
C17_UserProjection ==
  output.fn = "extractUser" =>
    LET idParsed == input.kc.idTokenParsed
        accessParsed == input.kc.tokenParsed
    IN IF idParsed = <<>> /\ accessParsed = <<>>
       THEN output.result = <<>>
       ELSE LET t == IF idParsed # <<>> THEN idParsed[1]
                     ELSE accessParsed[1]
                u == output.result[1]
            IN /\ Len(output.result) = 1
               /\ u.id = t.sub
               /\ u.email = t.email
               /\ u.emailVerified = t.email_verified
               /\ u.name = t.name
               /\ u.firstName = t.given_name
               /\ u.lastName = t.family_name
               /\ u.username = t.preferred_username
               /\ u.imageUrl = t.picture
               /\ u.claims = t
               /\ DOMAIN u = {"id", "email", "emailVerified", "name",
                              "firstName", "lastName", "username",
                              "imageUrl", "claims"}

\* both parsed tokens exist and differ: the user was read from the ID token
C17_Witness ==
  /\ output.fn = "extractUser"
  /\ input.kc.idTokenParsed # <<>>
  /\ input.kc.tokenParsed # <<>>
  /\ input.kc.idTokenParsed[1].sub # input.kc.tokenParsed[1].sub
  /\ output.result[1].id = input.kc.idTokenParsed[1].sub

\* C18: a hook called where its provider is missing throws and returns
\* nothing: useAuth, useUser and useKeycloak throw 'useAuth must be used
\* within a KeycloakAuthProvider' when no AuthContext value is provided and
\* useConfig throws when there is no ConfigProvider; inside a provider
\* useAuth and useConfig return the provided value itself and useUser and
\* useKeycloak its user and keycloak.
C18_HooksThrowOutsideProvider ==
  /\ output.fn \in {"useAuth", "useUser", "useKeycloak"} =>
       IF input.auth = <<>>
       THEN /\ output.result.threw
            /\ output.result.message =
                 "useAuth must be used within a KeycloakAuthProvider"
       ELSE /\ ~output.result.threw
            /\ output.result.value =
                 CASE output.fn = "useAuth" -> input.auth[1]
                   [] output.fn = "useUser" -> input.auth[1].user
                   [] output.fn = "useKeycloak" -> input.auth[1].keycloak
  /\ output.fn = "useConfig" =>
       IF input.config = <<>>
       THEN output.result.threw
       ELSE /\ ~output.result.threw
            /\ output.result.value = input.config[1]

\* useUser was called under a ConfigProvider but no KeycloakAuthProvider
C18_Witness ==
  /\ output.fn = "useUser"
  /\ input.auth = <<>>
  /\ input.config # <<>>
  /\ output.result.threw

\* a non-null object: a plain object or an array
IsObjectValue(v) == v.kind \in {"object", "array"}

\* v has a member of that name
HasMember(v, name) == v.kind = "object" /\ name \in DOMAIN v.members

\* v has a member of that name which is a non-null object
HasObjectMember(v, name) ==
  HasMember(v, name) /\ IsObjectValue(v.members[name])

\* C19: validateLoginConfig returns true exactly for non-null objects with an
\* object-valued realm, an object-valued urls and a string realm.name; every
\* other value makes it throw LoginConfigError with the message of the first
\* check that fails, the checks being in this order: the value is an object,
\* it has a realm object, it has a urls object, the realm has a name string.
C19_ValidationOrder ==
  output.fn = "validateLoginConfig" =>
    LET config == input.config
        r == output.result
        Fails(message) ==
          /\ r.threw
          /\ r.name = "LoginConfigError"
          /\ r.message = message
    IN IF ~IsObjectValue(config)
       THEN Fails("Login configuration must be an object")
       ELSE IF ~HasObjectMember(config, "realm")
       THEN Fails("Login configuration must have a 'realm' object")
       ELSE IF ~HasObjectMember(config, "urls")
       THEN Fails("Login configuration must have a 'urls' object")
       ELSE IF ~(/\ HasMember(config.members.realm, "name")
                 /\ config.members.realm.members.name.kind = "string")
       THEN Fails("Realm configuration must have a 'name' string")
       ELSE r = Returned(TRUE)

\* a configuration without urls whose realm has no name either: the urls
\* message is the one thrown
C19_Witness ==
  /\ output.fn = "validateLoginConfig"
  /\ HasObjectMember(input.config, "realm")
  /\ ~HasMember(input.config.members.realm, "name")
  /\ ~HasMember(input.config, "urls")
  /\ output.result.threw
  /\ output.result.message = "Login configuration must have a 'urls' object"

\* C20: a settled fetchLoginConfig call resolved only with data that passes
\* validateLoginConfig; if it failed because the request was aborted it
\* rejected with the AbortError itself, and if it failed for any other reason
\* (network error, non-OK status, unparsable body, invalid structure) it
\* rejected with a LoginConfigError.
C20_FetchOutcomes ==
  \A i \in DOMAIN fetchCalls :
    LET call == fetchCalls[i]
    IN call.pc = "done" =>
         IF call.result.status = "resolved"
         THEN /\ call.cause = "none"
              /\ validateLoginConfig(call.result.value) = Returned(TRUE)
         ELSE /\ call.cause \in {"abort", "network", "status", "body",
                                 "structure"}
              /\ IF call.cause = "abort"
                 THEN call.result.error = AbortError
                 ELSE call.result.error.name = "LoginConfigError"

\* the effect of the ConfigProvider ran in this step
ConfigEffectRan ==
  \/ ~configProvider.mounted /\ configProvider'.mounted
  \/ configProvider'.renders # configProvider.renders

C22_AbortedFetchIgnored ==
  /\ [](\A i \in DOMAIN fetchCalls :
          i # configProvider.fetch => fetchCalls[i].aborted)
  /\ [][\A i \in DOMAIN fetchCalls :
          /\ i \in configProvider'.handled \ configProvider.handled
          /\ fetchCalls[i].aborted
          => configProvider'.error = configProvider.error]_vars

\* C29: in server-fetch mode isLoading is true for as long as the fetch of
\* the current effect has not settled, and the callbacks of an earlier fetch
\* leave isLoading and config alone while that fetch is pending.
C29_LoadingWhileFetchPending ==
  /\ [](/\ configProvider.mounted
        /\ configProvider.fetch # 0
        /\ fetchCalls[configProvider.fetch].pc # "done"
        => configProvider.isLoading)
  /\ [][\A i \in DOMAIN fetchCalls :
          /\ i \in configProvider'.handled \ configProvider.handled
          /\ configProvider.mounted
          /\ configProvider.fetch \notin {0, i}
          /\ fetchCalls[configProvider.fetch].pc # "done"
          => /\ configProvider'.isLoading = configProvider.isLoading
             /\ configProvider'.config = configProvider.config]_vars

\* a call of submit was made in this step
SubmitCalled == form.mounted /\ form'.submits = form.submits + 1

\* some handler invocation of the form has not settled
HandlerPending(f) ==
  \E i \in DOMAIN f.handlerCalls : f.handlerCalls[i].result = Pending

HandlerSettled(i) ==
  /\ form.mounted
  /\ i \in DOMAIN form.handlerCalls
  /\ form.handlerCalls[i].result = Pending
  /\ form'.handlerCalls[i].result # Pending

\* C24: after a valid submit with a handler isSubmitting is true for as long
\* as the handler is pending and false once it has settled; when the handler
\* resolves onSuccess is invoked once and onError is not; when it rejects the
\* helper text is the error's message and is shown, onError is invoked once
\* with that error and onSuccess is not.
C24_SubmittingWhilePending ==
  /\ [](form.mounted /\ HandlerPending(form) => form.isSubmitting)
  /\ [][\A i \in 1..MaxSubmits + 1 :
          HandlerSettled(i) =>
            LET result == form'.handlerCalls[i].result
            IN /\ ~form'.isSubmitting
               /\ IF result.status = "resolved"
                  THEN /\ form'.onSuccessCalls = form.onSuccessCalls + 1
                       /\ form'.onErrorCalls = form.onErrorCalls
                  ELSE /\ form'.onSuccessCalls = form.onSuccessCalls
                       /\ Len(form'.onErrorCalls) =
                            Len(form.onErrorCalls) + 1
                       /\ form'.showHelperText
                       /\ form'.helperText =
                            form'.onErrorCalls[Len(form'.onErrorCalls)]
                              .message]_vars

\* C30: at most one submission runs at a time: a submit called while a
\* handler is pending does not invoke the handler again, and isSubmitting
\* does not become false while a handler invocation is pending.
C30_OneSubmissionAtATime ==
  /\ [][SubmitCalled /\ HandlerPending(form) =>
          form'.handlerCalls = form.handlerCalls]_vars
  /\ [][form.mounted /\ form.isSubmitting /\ HandlerPending(form') =>
          form'.isSubmitting]_vars

\* C25: a snapshot that is loading is not authenticated, whatever events the
\* clients deliver and whenever they deliver them.
C25_LoadingNotAuthenticated == value.isLoading => ~value.isAuthenticated

\* C26: a snapshot that is not authenticated carries neither an ID token nor
\* an access token.
C26_NoTokensWhenSignedOut ==
  ~value.isAuthenticated => value.idToken = 0 /\ value.accessToken = 0

\* C27: while the provider is mounted the tokens of the snapshot are the
\* current tokens of the client the snapshot hands out, and right after a
\* getToken call that refreshed the token the snapshot's accessToken is the
\* token getToken returned.
C27_SnapshotTokensCurrent ==
  /\ mounted /\ value.keycloak # 0 =>
       /\ value.accessToken = clients[value.keycloak].token
       /\ value.idToken = clients[value.keycloak].idToken
  /\ /\ mounted
     /\ lastEvent.type = "getTokenSettled"
     /\ lastEvent.detail = "refreshed"
     => value.accessToken = getTokenResult.value

\* C28: under a snapshot that is neither loading nor authenticated, every
\* call of signIn (direct, by Protect without a fallback, by RedirectToSignIn)
\* makes one call of the client's login and every call of signUp one call of
\* the client's register, with the redirect URI given or else the current
\* location.
C28_SignInReachesClient ==
  [][~value.isLoading /\ ~value.isAuthenticated =>
       /\ Len(signInCalls') = Len(signInCalls) + 1 =>
            /\ Len(loginCalls') = Len(loginCalls) + 1
            /\ loginCalls'[Len(loginCalls')][2] =
                 LET given == signInCalls'[Len(signInCalls')]
                 IN IF given \in {Undefined, ""} THEN "location.href"
                    ELSE given
       /\ lastEvent'.type = "signUp" =>
            /\ Len(registerCalls') = Len(registerCalls) + 1
            /\ registerCalls'[Len(registerCalls')][2] =
                 IF lastEvent'.detail \in {Undefined, ""}
                 THEN "location.href"
                 ELSE lastEvent'.detail]_vars
====
